---- MODULE Spec2Model ----
(***************************************************************************)
(* Model of the poster pipeline's image extractor                          *)
(* (src/pipelines/poster/image_extractor.go): the page worker pool of      *)
(* ExtractImagesFromPDF, the mutex-guarded SafeDocument, and the per-page  *)
(* detect -> decode -> suppress -> filter -> crop -> save path of          *)
(* processPage.  Spec is the whole call; SpecNMS, SpecGeom and SpecRender  *)
(* run the suppression, the decoding and cropping of one anchor, and one   *)
(* SafeDocument call on their own, over inputs the call's pages do not     *)
(* cover; SpecDecode and SpecLetterbox do the same for the decoder's       *)
(* scan of the class scores and for the letterbox geometry.  Three more    *)
(* parts of the repository have a specification each: SpecTTS, the global  *)
(* semaphore of the reel pipeline's TTS client; SpecPool, the job pool of  *)
(* the HTTP server (src/server.go); SpecSections, the bullet-point step    *)
(* of the video pipeline.                                                  *)
(*                                                                         *)
(* Numbers.  Confidences and the IoU threshold are held in hundredths      *)
(* (0.30 -> 30, 0.45 -> 45).  Detector outputs are integer valued, the     *)
(* page sizes used have a power-of-two long side and the ratios of the two *)
(* renders' sizes are 1, 3/2, 2 or 3, so every float32/float64 operation   *)
(* of the code is exact and is modelled by integer arithmetic on a common  *)
(* denominator, with int() as truncation toward zero.  The letterbox     *)
(* alone is also run on sides that do not divide 1024; where the float64   *)
(* product then differs from the exact one is listed in FloatLoss.         *)
(***************************************************************************)
EXTENDS Integers, Sequences, FiniteSets, TLC

\* ------------------------------------------------------------------ bounds
NumWorkers == 2
MaxPages == 2
MaxCand == 3
MaxAnchors == 2
MaxTurns == 3
MaxJobs == 3
BufferSize == 1
MaxSections == 3

\* ------------------------------------------------------- program constants
ConfThreshold == 30
NMSThreshold == 45
MinBoxSize == 30
inputSize == 1024
NumClasses == 11

ClassNames ==
  << "Caption", "Footnote", "Formula", "List-item", "Page-footer",
     "Page-header", "Picture", "Section-header", "Table", "Text", "Title" >>

\* ----------------------------------------------------------------- helpers
max(a, b) == IF a > b THEN a ELSE b

min(a, b) == IF a < b THEN a ELSE b

\* Go's int(f) for a float f = n / d with d > 0: truncation toward zero
Trunc(n, d) == IF n >= 0 THEN n \div d ELSE -((-n) \div d)

\* image.Rect(x0, y0, x1, y1): the corners are put in min/max order
Rect(x0, y0, x1, y1) ==
  [minX |-> min(x0, x1), minY |-> min(y0, y1),
   maxX |-> max(x0, x1), maxY |-> max(y0, y1)]

Dx(r) == r.maxX - r.minX

Dy(r) == r.maxY - r.minY

\* image.Rectangle.Empty
Empty(r) == r.minX >= r.maxX \/ r.minY >= r.maxY

\* image.Rectangle.Intersect: the zero rectangle when the overlap is empty
Intersect(r, s) ==
  LET t == [minX |-> max(r.minX, s.minX), minY |-> max(r.minY, s.minY),
            maxX |-> min(r.maxX, s.maxX), maxY |-> min(r.maxY, s.maxY)]
  IN  IF Empty(t) THEN Rect(0, 0, 0, 0) ELSE t

Area(r) == Dx(r) * Dy(r)

\* ------------------------------------------------------ letterbox geometry
\* scale = 1024 / max(W0, H0), held as the long side it divides by
LongSide(W0, H0) == max(W0, H0)

\* The pairs (side, long side), among the sides the model uses, at which
\* the float64 product side * (1024 / long side) comes out just below the
\* whole number it is exactly: the quotients 1024/49 and 1024/98 are
\* rounded down, and so is the product, and int() then gives one less
FloatLoss == { << 49, 49 >>, << 49, 98 >>, << 98, 98 >> }

\* int(float64(side) * scale)
Scaled(side, M) ==
  Trunc(side * inputSize, M) - (IF << side, M >> \in FloatLoss THEN 1 ELSE 0)

newW(W0, H0) == Scaled(W0, LongSide(W0, H0))

newH(W0, H0) == Scaled(H0, LongSide(W0, H0))

\* dx as it would be if the resized page were pasted at the left edge
dxLeftEdge(W0, H0) == 0

dx(W0, H0) == (inputSize - newW(W0, H0)) \div 2

dy(W0, H0) == (inputSize - newH(W0, H0)) \div 2

\* ------------------------------------------------------ detector decoding
\* One anchor of the raw output: centre, size and the 11 class scores.
\* maxScore starts at 0 and maxClassID at -1; a score replaces the running
\* maximum only when strictly greater, so the lowest index wins a tie.
RECURSIVE ScanScoresLastWins(_, _, _, _)
\* ScanScores as it would be if an equal score replaced the running maximum
ScanScoresLastWins(score, k, maxScore, maxClassID) ==
  IF k >= NumClasses THEN [maxScore |-> maxScore, maxClassID |-> maxClassID]
  ELSE IF score[k] >= maxScore
       THEN ScanScoresLastWins(score, k + 1, score[k], k)
       ELSE ScanScoresLastWins(score, k + 1, maxScore, maxClassID)

RECURSIVE ScanScoresFromOne(_, _, _, _)
\* ScanScores as it would be if the classes were counted from one
ScanScoresFromOne(score, k, maxScore, maxClassID) ==
  IF k >= NumClasses THEN [maxScore |-> maxScore, maxClassID |-> maxClassID]
  ELSE IF score[k] > maxScore
       THEN ScanScoresFromOne(score, k + 1, score[k], k + 1)
       ELSE ScanScoresFromOne(score, k + 1, maxScore, maxClassID)

RECURSIVE ScanScores(_, _, _, _)
ScanScores(score, k, maxScore, maxClassID) ==
  IF k >= NumClasses THEN [maxScore |-> maxScore, maxClassID |-> maxClassID]
  ELSE IF score[k] > maxScore
       THEN ScanScores(score, k + 1, score[k], k)
       ELSE ScanScores(score, k + 1, maxScore, maxClassID)

\* DecodeBox as it would be if cx, cy were the box's corner, not its centre
DecodeBoxFromCorner(a, W0, H0) ==
  LET M  == LongSide(W0, H0)
      D  == 2 * inputSize
      wN == 2 * a.w * M
      hN == 2 * a.h * M
      x0 == 2 * (a.cx - dx(W0, H0)) * M
      y0 == 2 * (a.cy - dy(W0, H0)) * M
      xN == IF x0 < 0 THEN 0 ELSE x0
      yN == IF y0 < 0 THEN 0 ELSE y0
  IN  Rect(Trunc(xN, D), Trunc(yN, D), Trunc(xN + wN, D), Trunc(yN + hN, D))

\* The rectangle of one anchor.  With M the long side, 1/scale = M/1024 and
\* every coordinate is a multiple of 1/2048: x = xN/2048, w = wN/2048.
DecodeBox(a, W0, H0) ==
  LET M  == LongSide(W0, H0)
      D  == 2 * inputSize
      wN == 2 * a.w * M
      hN == 2 * a.h * M
      x0 == (2 * (a.cx - dx(W0, H0)) - a.w) * M
      y0 == (2 * (a.cy - dy(W0, H0)) - a.h) * M
      xN == IF x0 < 0 THEN 0 ELSE x0
      yN == IF y0 < 0 THEN 0 ELSE y0
  IN  Rect(Trunc(xN, D), Trunc(yN, D), Trunc(xN + wN, D), Trunc(yN + hN, D))

RECURSIVE parseYOLOOutput(_, _, _)
parseYOLOOutput(data, W0, H0) ==
  IF data = << >> THEN << >>
  ELSE LET a == Head(data)
           m == ScanScores(a.score, 0, 0, -1)
           rest == parseYOLOOutput(Tail(data), W0, H0)
       IN  IF m.maxScore > ConfThreshold
           THEN << [box |-> DecodeBox(a, W0, H0), classId |-> m.maxClassID,
                    conf |-> m.maxScore] >> \o rest
           ELSE rest

\* ------------------------------------------- suppression (gocv.NMSBoxes)
\* OpenCV's rectangle overlap is 1 - jaccardDistance: two rectangles of
\* total area zero count as coincident (overlap 1), otherwise it is
\* intersection over union.  OverlapExceeds(a, b, t) is overlap > t/100.
OverlapExceeds(a, b, t) ==
  LET Aa  == Area(a)
      Ab  == Area(b)
      Aab == Area(Intersect(a, b))
  IN  IF Aa + Ab <= 0 THEN 100 > t
      ELSE 100 * Aab > t * (Aa + Ab - Aab)

\* Indices with score above the threshold, by descending score, the order
\* of the input kept among equal scores (std::stable_sort).
RECURSIVE SortByScore(_, _)
SortByScore(cands, pending) ==
  IF pending = {} THEN << >>
  ELSE LET best == CHOOSE i \in pending :
                     \A j \in pending :
                        \/ cands[i].conf > cands[j].conf
                        \/ cands[i].conf = cands[j].conf /\ i <= j
       IN  << best >> \o SortByScore(cands, pending \ {best})

\* A candidate is kept when it overlaps no kept one by more than the
\* threshold.
RECURSIVE Greedy(_, _, _, _)
Greedy(cands, order, kept, nmsThreshold) ==
  IF order = << >> THEN kept
  ELSE LET idx  == Head(order)
           keep == \A n \in 1..Len(kept) :
                     ~OverlapExceeds(cands[idx].box, cands[kept[n]].box,
                                     nmsThreshold)
       IN  Greedy(cands, Tail(order),
                  IF keep THEN Append(kept, idx) ELSE kept, nmsThreshold)

\* NMSBoxes as it would be if a candidate were compared only with the one
\* just before it in the order of scores, kept or not
NMSBoxesNeighbours(cands, scoreThreshold, nmsThreshold) ==
  LET order == SortByScore(cands, {i \in 1..Len(cands) : cands[i].conf > scoreThreshold})
      pos(i) == CHOOSE n \in 1..Len(order) : order[n] = i
      keep(i) == \/ pos(i) = 1
                 \/ ~OverlapExceeds(cands[i].box, cands[order[pos(i) - 1]].box,
                                    nmsThreshold)
  IN  SelectSeq(order, keep)

NMSBoxes(cands, scoreThreshold, nmsThreshold) ==
  Greedy(cands,
         SortByScore(cands, {i \in 1..Len(cands) : cands[i].conf > scoreThreshold}),
         << >>, nmsThreshold)

\* ------------------------------------------------------- region extractor
\* IsRetained as it would be if only the text classes were dropped
IsRetainedNotText(label) == label \notin {"Caption", "Footnote", "Title"}

\* The class filter: only Pictures and Tables are extracted
IsRetained(label) == label = "Picture" \/ label = "Table"

\* BigEnough as it would be if a box were dropped only when both its
\* sides are short
BigEnoughEitherSide(box) == ~(Dx(box) < MinBoxSize /\ Dy(box) < MinBoxSize)

\* The size filter: neither side of the box is below MinBoxSize
BigEnough(box) == ~(Dx(box) < MinBoxSize \/ Dy(box) < MinBoxSize)

\* cropRect as it would be with a fixed ratio of 2 between the two renders
cropRectFixedRatio(box, W0, H0, W1, H1) ==
  Rect(2 * box.minX, 2 * box.minY, 2 * box.maxX, 2 * box.maxY)

\* extractScaleX = W1 / W0, extractScaleY = H1 / H0
cropRect(box, W0, H0, W1, H1) ==
  Rect(Trunc(box.minX * W1, W0), Trunc(box.minY * H1, H0),
       Trunc(box.maxX * W1, W0), Trunc(box.maxY * H1, H0))

\* cropImage as it would be without the placeholder for an empty crop
cropImageNoPlaceholder(W1, H1, rect) == Intersect(rect, Rect(0, 0, W1, H1))

\* cropImage: the bounds of the crop; 1 x 1 when nothing is left
cropImage(W1, H1, rect) ==
  LET intersect == Intersect(rect, Rect(0, 0, W1, H1))
  IN  IF Empty(intersect) THEN Rect(0, 0, 1, 1) ELSE intersect

\* fmt.Sprintf("p%d_%s_%d.png", pageNum, label, box.Min.X)
fName(pageNum, label, box) == << "p", pageNum, "_", label, "_", box.minX, ".png" >>

\* ------------------------------------------------------------- documents
\* One anchor whose only non-zero class score is conf, for class cls
Anchor(cx, cy, w, h, cls, conf) ==
  [cx |-> cx, cy |-> cy, w |-> w, h |-> h,
   score |-> [k \in 0..(NumClasses - 1) |-> IF k = cls THEN conf ELSE 0]]

\* What a page holds: the size of its default render (W0 x H0), the size of
\* its 300 DPI PNG render (W1 x H1) and the detector's raw output for it.
\* a Table, a Picture that overlaps it, and a Text block elsewhere
TableAndText ==
  [W0 |-> 1024, H0 |-> 1024, W1 |-> 2048, H1 |-> 2048,
   out |-> << Anchor(200, 200, 100, 100, 8, 90),
              Anchor(210, 200, 100, 100, 6, 60),
              Anchor(600, 600, 200, 100, 9, 80) >>]

\* a Picture one pixel too narrow, a Picture of exactly 30 x 30 and a Table
\* whose score is exactly the confidence threshold
SmallPictures ==
  [W0 |-> 1024, H0 |-> 1024, W1 |-> 2048, H1 |-> 2048,
   out |-> << Anchor(100, 100, 29, 100, 6, 70),
              Anchor(300, 300, 30, 30, 6, 50),
              Anchor(500, 500, 100, 100, 8, 30) >>]

\* a landscape page (scale 1/2, dy = 256) with two Tables whose left edges
\* coincide
TwoTables ==
  [W0 |-> 2048, H0 |-> 1024, W1 |-> 2048, H1 |-> 1024,
   out |-> << Anchor(100, 300, 100, 40, 8, 90),
              Anchor(100, 400, 100, 40, 8, 85) >>]

\* The detector's output for one Table of confidence 0.9 that covers the
\* padded canvas but for a margin of 10 px on each side, and one Picture
\* whose score is below the threshold
FullCanvasMargin == 10

FullCanvasOut ==
  << Anchor(512, 512, inputSize - 2 * FullCanvasMargin,
            inputSize - 2 * FullCanvasMargin, 8, 90),
     Anchor(300, 300, 200, 200, 6, 20) >>

\* that output on a square page, which fills the canvas
FullTableSquare ==
  [W0 |-> 1024, H0 |-> 1024, W1 |-> 1536, H1 |-> 1536, out |-> FullCanvasOut]

\* that output on a landscape page (scale 1/2, dy = 256)
FullTableWide ==
  [W0 |-> 2048, H0 |-> 1024, W1 |-> 3072, H1 |-> 1536, out |-> FullCanvasOut]

\* a portrait page (dx = 256) with a Table found in the padding to the
\* right of the page and a Picture on the page
BeyondPage ==
  [W0 |-> 512, H0 |-> 1024, W1 |-> 768, H1 |-> 1536,
   out |-> << Anchor(900, 500, 100, 100, 8, 90),
              Anchor(500, 200, 101, 61, 6, 70) >>]

\* a page on which the detector finds nothing
Blank ==
  [W0 |-> 1024, H0 |-> 1024, W1 |-> 1024, H1 |-> 1024, out |-> << >>]

\* A page and what its calls into the libraries do in the run: low is the
\* outcome of the render and the preprocessing, run that of session.Run,
\* extract the outcomes of the successive extractions (all further ones
\* succeed): "ok", "hiRes failed", "png failed", "create failed" or
\* "encode failed")
PageOf(content, low, run, extract) ==
  [W0 |-> content.W0, H0 |-> content.H0, W1 |-> content.W1, H1 |-> content.H1,
   out |-> content.out, low |-> low, run |-> run, extract |-> extract]

SamplePages ==
  << PageOf(TableAndText, "ok", "ok", << >>),
     PageOf(TableAndText, "render failed", "ok", << >>),
     PageOf(SmallPictures, "ok", "ok", << >>),
     PageOf(TableAndText, "ok", "infer failed", << >>),
     PageOf(TwoTables, "ok", "ok", << >>),
     PageOf(SmallPictures, "mat failed", "ok", << >>),
     PageOf(TwoTables, "ok", "ok", << "hiRes failed" >>),
     PageOf(TableAndText, "tensor failed", "ok", << >>),
     PageOf(TwoTables, "ok", "ok", << "create failed" >>),
     PageOf(Blank, "ok", "ok", << >>),
     PageOf(TwoTables, "ok", "ok", << "ok", "png failed" >>),
     PageOf(TwoTables, "ok", "ok", << "ok", "encode failed" >>),
     PageOf(TableAndText, "ok", "ok", << "encode failed" >>),
     PageOf(FullTableSquare, "ok", "ok", << >>),
     PageOf(FullTableWide, "ok", "ok", << >>),
     PageOf(BeyondPage, "ok", "ok", << >>) >>

Pages == 0..(MaxPages - 1)

\* The documents: n pages, page p holding sample (p + s) mod 16
DocSamples ==
  { [p \in 0..(n - 1) |-> SamplePages[((p + s) % Len(SamplePages)) + 1]] :
      n \in 0..MaxPages, s \in 0..(Len(SamplePages) - 1) }

\* ------------------------------------------------------------------ state
Workers == 1..NumWorkers

MainId == 0

Free == -1

VARIABLES
  doc,        \* the document on disk (input)
  rawDoc,     \* ExtractImagesFromPDF: rawDoc, "nil" until fitz.New succeeds
  mpc,        \* ExtractImagesFromPDF: position of the calling goroutine
  numPages,   \* ExtractImagesFromPDF: numPages
  nextPage,   \* ExtractImagesFromPDF: i of the dispatch loop
  result,     \* ExtractImagesFromPDF: what the call returned
  jobs,       \* the jobs channel's buffer
  jobsClosed, \* close(jobs) has happened
  wg,         \* the wait group's counter
  docMu,      \* SafeDocument.mu: its holder, or Free
  inHandle,   \* goroutines executing inside the fitz document
  inSession,  \* goroutines executing inside session.Run
  pathsMutex, \* pathsMutex: its holder, or Free
  allPaths,   \* the shared result list
  pc,         \* each worker's position
  local,      \* each worker's locals in the loop body and in processPage
  taken,      \* history: how often each page index was received
  returned,   \* history: the lists processPage returned for each page
  log,        \* history: the steps performed for each page, in order
  files,      \* history: the artifact files written
  candidates, \* suppression on its own: the boxes and confidences given
  survivors,  \* suppression on its own: the indices NMSBoxes returned
  nmsDone,    \* suppression on its own: NMSBoxes has returned
  second,     \* suppression on its own: NMSBoxes run again on its survivors
  geo,        \* decoding and cropping on their own: one anchor on one page
  req,        \* SafeDocument on its own: one render request
  dec,        \* the decoder on its own: a raw output and the three lists
  lb,         \* the letterbox on its own: a render's size and its geometry
  tts,        \* the reel pipeline's speech client: its calls and semaphore
  pool,       \* the HTTP server's job pool
  sec         \* the video pipeline's step 3: the sections map

vars == << doc, rawDoc, mpc, numPages, nextPage, result, jobs, jobsClosed, wg, docMu,
           inHandle, inSession, pathsMutex, allPaths, pc, local, taken,
           returned, log, files, candidates, survivors, nmsDone, second,
           geo, req, dec, lb, tts, pool, sec >>

nmsVars == << candidates, survivors, nmsDone, second >>

\* The variables of the parts taken on their own
otherVars == << dec, lb, tts, pool, sec >>

aloneVars == << nmsVars, geo, req, otherVars >>

mainVars == << rawDoc, mpc, numPages, nextPage, result >>

histVars == << taken, returned, log, files >>

\* The variables of the extraction call
extractorVars ==
  << doc, mainVars, jobs, jobsClosed, wg, docMu, inHandle, inSession,
     pathsMutex, allPaths, pc, local, histVars >>

NoLocal ==
  [pageNum |-> -1, originalW |-> 0, originalH |-> 0, cands |-> << >>,
   indices |-> << >>, tried |-> 0, paths |-> << >>, old |-> << >>]

PoolInit ==
  /\ rawDoc = "nil"
  /\ mpc = "open"
  /\ numPages = 0
  /\ nextPage = 0
  /\ result = "none"
  /\ jobs = << >>
  /\ jobsClosed = FALSE
  /\ wg = 0
  /\ docMu = Free
  /\ inHandle = {}
  /\ inSession = {}
  /\ pathsMutex = Free
  /\ allPaths = << >>
  /\ pc = [w \in Workers |-> "unborn"]
  /\ local = [w \in Workers |-> NoLocal]
  /\ taken = [p \in Pages |-> 0]
  /\ returned = [p \in Pages |-> << >>]
  /\ log = [p \in Pages |-> << >>]
  /\ files = {}

\* Nothing has been asked of the parts taken on their own
NoSecond == [done |-> FALSE, survivors |-> << >>]

NoGeo == [stage |-> "idle"]

NoReq == [stage |-> "idle"]

NoDec == [stage |-> "idle"]

NoLb == [stage |-> "idle"]

NoTts == [stage |-> "idle"]

NoPool == [stage |-> "idle"]

NoSec == [stage |-> "idle"]

OthersIdle ==
  /\ dec = NoDec
  /\ lb = NoLb
  /\ tts = NoTts
  /\ pool = NoPool
  /\ sec = NoSec

Init ==
  /\ doc \in DocSamples
  /\ PoolInit
  /\ candidates = << >>
  /\ survivors = << >>
  /\ nmsDone = FALSE
  /\ second = NoSecond
  /\ geo = NoGeo
  /\ req = NoReq
  /\ OthersIdle

\* ------------------------------------------------------------ SafeDocument
\* Lock as it would be if the mutex did not exclude a second holder
LockNoGuard(self) ==
  /\ docMu' = self
  /\ inHandle' = inHandle \cup {self}

\* s.mu.Lock() followed by the entry into the wrapped document
Lock(self) ==
  /\ docMu = Free
  /\ docMu' = self
  /\ inHandle' = inHandle \cup {self}

\* return from the wrapped document followed by the deferred s.mu.Unlock()
Unlock(self) ==
  /\ inHandle' = inHandle \ {self}
  /\ docMu' = Free

\* ---------------------------------------------------- ExtractImagesFromPDF
\* fitz.New(pdfPath): on failure the call returns the error at once
Open ==
  /\ mpc = "open"
  /\ \E ok \in BOOLEAN :
       IF ok THEN /\ mpc' = "numPage"
                  /\ rawDoc' = "open"
                  /\ result' = result
             ELSE /\ mpc' = "done"
                  /\ rawDoc' = rawDoc
                  /\ result' = "error opening PDF"
  /\ UNCHANGED << doc, aloneVars, numPages, nextPage, jobs, jobsClosed, wg, docMu,
                  inHandle, inSession, pathsMutex, allPaths, pc, local,
                  histVars >>

\* doc.NumPage(): entry
NumPageEnter ==
  /\ mpc = "numPage"
  /\ Lock(MainId)
  /\ mpc' = "inNumPage"
  /\ UNCHANGED << doc, aloneVars, rawDoc, numPages, nextPage, result, jobs, jobsClosed, wg,
                  inSession, pathsMutex, allPaths, pc, local, histVars >>

\* doc.NumPage(): return; jobs := make(chan int, numPages)
NumPageReturn ==
  /\ mpc = "inNumPage"
  /\ Unlock(MainId)
  /\ numPages' = Cardinality(DOMAIN doc)
  /\ mpc' = "spawn"
  /\ UNCHANGED << doc, aloneVars, rawDoc, nextPage, result, jobs, jobsClosed, wg, inSession,
                  pathsMutex, allPaths, pc, local, histVars >>

\* one iteration of the spawn loop: wg.Add(1); go func() {...}()
Spawn ==
  /\ mpc = "spawn"
  /\ \E w \in Workers :
       /\ pc[w] = "unborn"
       /\ \A v \in Workers : v < w => pc[v] # "unborn"
       /\ pc' = [pc EXCEPT ![w] = "recv"]
       /\ wg' = wg + 1
       /\ mpc' = IF w = NumWorkers THEN "dispatch" ELSE "spawn"
  /\ UNCHANGED << doc, aloneVars, rawDoc, numPages, nextPage, result, jobs, jobsClosed, docMu,
                  inHandle, inSession, pathsMutex, allPaths, local, histVars >>

\* jobs <- i : blocks while the buffer (capacity numPages) is full
Dispatch ==
  /\ mpc = "dispatch"
  /\ nextPage < numPages
  /\ Len(jobs) < numPages
  /\ jobs' = Append(jobs, nextPage)
  /\ nextPage' = nextPage + 1
  /\ UNCHANGED << doc, aloneVars, rawDoc, mpc, numPages, result, jobsClosed, wg, docMu, inHandle,
                  inSession, pathsMutex, allPaths, pc, local, histVars >>

\* Close as it would be if close(jobs) were left out
CloseForgotten ==
  /\ mpc = "dispatch"
  /\ nextPage >= numPages
  /\ jobsClosed' = jobsClosed
  /\ mpc' = "wait"
  /\ UNCHANGED << doc, aloneVars, rawDoc, numPages, nextPage, result, jobs, wg,
                  docMu, inHandle, inSession, pathsMutex, allPaths, pc, local,
                  histVars >>

\* close(jobs) once every index has been sent
Close ==
  /\ mpc = "dispatch"
  /\ nextPage >= numPages
  /\ jobsClosed' = TRUE
  /\ mpc' = "wait"
  /\ UNCHANGED << doc, aloneVars, rawDoc, numPages, nextPage, result, jobs, wg, docMu, inHandle,
                  inSession, pathsMutex, allPaths, pc, local, histVars >>

\* Wait as it would be if a page that produced nothing made the call fail
WaitStrict ==
  /\ mpc = "wait"
  /\ wg = 0
  /\ mpc' = "done"
  /\ result' = IF \E p \in DOMAIN doc : returned[p] = << << >> >>
               THEN "page failed" ELSE "nil"
  /\ rawDoc' = "closed"
  /\ UNCHANGED << doc, aloneVars, numPages, nextPage, jobs, jobsClosed, wg,
                  docMu, inHandle, inSession, pathsMutex, allPaths, pc, local,
                  histVars >>

\* wg.Wait(); return allPaths, nil; the deferred rawDoc.Close()
Wait ==
  /\ mpc = "wait"
  /\ wg = 0
  /\ mpc' = "done"
  /\ result' = "nil"
  /\ rawDoc' = "closed"
  /\ UNCHANGED << doc, aloneVars, numPages, nextPage, jobs, jobsClosed, wg, docMu,
                  inHandle, inSession, pathsMutex, allPaths, pc, local,
                  histVars >>

\* ----------------------------------------------------------- worker: loop
\* Recv as it would be if a received index stayed in the channel
RecvNoPop(self) ==
  /\ pc[self] = "recv"
  /\ jobs # << >>
  /\ local' = [local EXCEPT ![self] = [NoLocal EXCEPT !.pageNum = Head(jobs)]]
  /\ taken' = [taken EXCEPT ![Head(jobs)] = @ + 1]
  /\ pc' = [pc EXCEPT ![self] = "render"]
  /\ UNCHANGED << doc, aloneVars, mainVars, jobs, jobsClosed, wg, docMu,
                  inHandle, inSession, pathsMutex, allPaths, returned, log, files >>

\* for pageNum := range jobs: a receive, or the end of the loop and the
\* deferred wg.Done() once the channel is closed and drained
Recv(self) ==
  /\ pc[self] = "recv"
  /\ \/ /\ jobs # << >>
        /\ local' = [local EXCEPT ![self] = [NoLocal EXCEPT !.pageNum = Head(jobs)]]
        /\ jobs' = Tail(jobs)
        /\ taken' = [taken EXCEPT ![Head(jobs)] = @ + 1]
        /\ pc' = [pc EXCEPT ![self] = "render"]
        /\ wg' = wg
     \/ /\ jobs = << >>
        /\ jobsClosed
        /\ pc' = [pc EXCEPT ![self] = "exit"]
        /\ wg' = wg - 1
        /\ UNCHANGED << jobs, local, taken >>
  /\ UNCHANGED << doc, aloneVars, mainVars, jobsClosed, docMu, inHandle, inSession,
                  pathsMutex, allPaths, returned, log, files >>

\* processPage returns: if len(paths) > 0 the list goes to the shared one
Return(self) ==
  /\ pc[self] = "return"
  /\ returned' = [returned EXCEPT ![local[self].pageNum] = Append(@, local[self].paths)]
  /\ pc' = [pc EXCEPT ![self] = IF Len(local[self].paths) > 0 THEN "lockPaths" ELSE "recv"]
  /\ UNCHANGED << doc, aloneVars, mainVars, jobs, jobsClosed, wg, docMu, inHandle,
                  inSession, pathsMutex, allPaths, local, taken, log, files >>

\* PathsLock as it would be if the results mutex did not exclude
PathsLockNoGuard(self) ==
  /\ pc[self] = "lockPaths"
  /\ pathsMutex' = self
  /\ local' = [local EXCEPT ![self].old = allPaths]
  /\ pc' = [pc EXCEPT ![self] = "append"]
  /\ UNCHANGED << doc, aloneVars, mainVars, jobs, jobsClosed, wg, docMu,
                  inHandle, inSession, allPaths, histVars >>

\* pathsMutex.Lock(), then append reads the shared slice
PathsLock(self) ==
  /\ pc[self] = "lockPaths"
  /\ pathsMutex = Free
  /\ pathsMutex' = self
  /\ local' = [local EXCEPT ![self].old = allPaths]
  /\ pc' = [pc EXCEPT ![self] = "append"]
  /\ UNCHANGED << doc, aloneVars, mainVars, jobs, jobsClosed, wg, docMu, inHandle,
                  inSession, allPaths, histVars >>

\* allPaths = append(allPaths, paths...); pathsMutex.Unlock()
PathsAppend(self) ==
  /\ pc[self] = "append"
  /\ allPaths' = local[self].old \o local[self].paths
  /\ pathsMutex' = Free
  /\ pc' = [pc EXCEPT ![self] = "recv"]
  /\ UNCHANGED << doc, aloneVars, mainVars, jobs, jobsClosed, wg, docMu, inHandle,
                  inSession, local, histVars >>

\* ------------------------------------------------------------ processPage
Note(self, steps) == [log EXCEPT ![local[self].pageNum] = @ \o steps]

Page(self) == doc[local[self].pageNum]

\* Suppress as it would be with the two thresholds passed in each other's
\* place
SuppressSwapped(cands) ==
  IF Len(cands) > 0 THEN NMSBoxes(cands, NMSThreshold, ConfThreshold) ELSE << >>

\* The survivors' indices: NMSBoxes is only called when there are boxes
Suppress(cands) ==
  IF Len(cands) > 0 THEN NMSBoxes(cands, ConfThreshold, NMSThreshold) ELSE << >>

\* The loop over indices passes over (continue) every detection whose label
\* is neither Picture nor Table or whose box is too small: what is left of
\* indices when the loop body gets to the high-resolution render
Passes(cands, idx) ==
  IsRetained(ClassNames[cands[idx].classId + 1]) /\ BigEnough(cands[idx].box)

\* SkipFiltered as it would be if the loop had neither filter
SkipFilteredNone(cands, indices) == indices

SkipFiltered(cands, indices) ==
  LET P == {i \in 1..Len(indices) : Passes(cands, indices[i])}
  IN  IF P = {} THEN << >>
      ELSE SubSeq(indices, CHOOSE i \in P : \A j \in P : i <= j, Len(indices))

\* Where processPage goes on with these indices left: to the render of the
\* next detection, or to its return
LoopPc(indices) == IF indices = << >> THEN "return" ELSE "hiRes"

\* The detection the loop over indices is at
Current(self) == local[self].cands[Head(local[self].indices)]

Label(self) == ClassNames[Current(self).classId + 1]

\* doc.Image(pageNum): entry
ImageEnter(self) ==
  /\ pc[self] = "render"
  /\ Lock(self)
  /\ pc' = [pc EXCEPT ![self] = "inImage"]
  /\ UNCHANGED << doc, aloneVars, mainVars, jobs, jobsClosed, wg, inSession,
                  pathsMutex, allPaths, local, histVars >>

\* ImageReturn as it would be if a failed render ended the worker's loop
ImageReturnAbort(self) ==
  /\ pc[self] = "inImage"
  /\ Unlock(self)
  /\ pc' = [pc EXCEPT ![self] = IF Page(self).low = "ok" THEN "run"
                                ELSE IF Page(self).low = "render failed" THEN "exit"
                                ELSE "return"]
  /\ wg' = IF Page(self).low = "render failed" THEN wg - 1 ELSE wg
  /\ log' = [log EXCEPT ![local[self].pageNum] =
               @ \o (IF Page(self).low = "ok" THEN << "render", "preprocess" >>
                     ELSE << Page(self).low >>)]
  /\ local' = IF Page(self).low = "render failed" THEN local
              ELSE [local EXCEPT ![self].originalW = Page(self).W0,
                                 ![self].originalH = Page(self).H0]
  /\ UNCHANGED << doc, aloneVars, mainVars, jobs, jobsClosed, inSession,
                  pathsMutex, allPaths, taken, returned, files >>

\* The steps noted for the render and the preprocessing
LowSteps(r) ==
  CASE r = "ok" -> << "render", "preprocess" >>
    [] r = "render failed" -> << r >>
    [] r = "mat failed" -> << "render", r >>
    [] r = "tensor failed" -> << "render", "preprocess", r >>

\* doc.Image(pageNum): return.  Then gocv.ImageToMatRGB, the letterbox and
\* the two ort.NewTensor calls; an error of the render, of the conversion
\* or of a tensor ends processPage with nil
ImageReturn(self) ==
  /\ pc[self] = "inImage"
  /\ Unlock(self)
  /\ pc' = [pc EXCEPT ![self] = IF Page(self).low = "ok" THEN "run" ELSE "return"]
  /\ log' = Note(self, LowSteps(Page(self).low))
  /\ local' = IF Page(self).low = "render failed" THEN local
              ELSE [local EXCEPT ![self].originalW = Page(self).W0,
                                 ![self].originalH = Page(self).H0]
  /\ UNCHANGED << doc, aloneVars, mainVars, jobs, jobsClosed, wg, inSession,
                  pathsMutex, allPaths, taken, returned, files >>

\* RunEnter as it would be if the session admitted one worker at a time
RunEnterOneAtATime(self) ==
  /\ pc[self] = "run"
  /\ inSession = {}
  /\ inSession' = inSession \cup {self}
  /\ pc' = [pc EXCEPT ![self] = "inRun"]
  /\ UNCHANGED << doc, aloneVars, mainVars, jobs, jobsClosed, wg, docMu,
                  inHandle, pathsMutex, allPaths, local, histVars >>

\* e.session.Run: entry; nothing guards the shared session
RunEnter(self) ==
  /\ pc[self] = "run"
  /\ inSession' = inSession \cup {self}
  /\ pc' = [pc EXCEPT ![self] = "inRun"]
  /\ UNCHANGED << doc, aloneVars, mainVars, jobs, jobsClosed, wg, docMu,
                  inHandle, pathsMutex, allPaths, local, histVars >>

\* boxes, classIds, confidences of the page the worker holds
Parsed(self) ==
  parseYOLOOutput(Page(self).out, local[self].originalW, local[self].originalH)

\* RunReturn as it would be if the error of session.Run were not looked at
RunReturnUnchecked(self) ==
  /\ pc[self] = "inRun"
  /\ inSession' = inSession \ {self}
  /\ local' = [local EXCEPT
                 ![self].cands = Parsed(self),
                 ![self].indices = SkipFiltered(Parsed(self), Suppress(Parsed(self)))]
  /\ pc' = [pc EXCEPT ![self] =
              LoopPc(SkipFiltered(Parsed(self), Suppress(Parsed(self))))]
  /\ log' = Note(self, << IF Page(self).run = "ok" THEN "infer" ELSE "infer failed",
                          "decode", "suppress" >>)
  /\ UNCHANGED << doc, aloneVars, mainVars, jobs, jobsClosed, wg, docMu,
                  inHandle, pathsMutex, allPaths, taken, returned, files >>

\* e.session.Run: return; an error ends processPage with nil.  Otherwise
\* parseYOLOOutput, gocv.NMSBoxes and the loop up to its first render
RunReturn(self) ==
  /\ pc[self] = "inRun"
  /\ inSession' = inSession \ {self}
  /\ IF Page(self).run = "ok"
     THEN /\ local' = [local EXCEPT
                         ![self].cands = Parsed(self),
                         ![self].indices = SkipFiltered(Parsed(self), Suppress(Parsed(self)))]
          /\ pc' = [pc EXCEPT ![self] =
                      LoopPc(SkipFiltered(Parsed(self), Suppress(Parsed(self))))]
          /\ log' = Note(self, << "infer", "decode", "suppress" >>)
     ELSE /\ pc' = [pc EXCEPT ![self] = "return"]
          /\ log' = Note(self, << "infer failed" >>)
          /\ local' = local
  /\ UNCHANGED << doc, aloneVars, mainVars, jobs, jobsClosed, wg, docMu,
                  inHandle, pathsMutex, allPaths, taken, returned, files >>

\* doc.ImagePNG(pageNum, 300): entry
ImagePNGEnter(self) ==
  /\ pc[self] = "hiRes"
  /\ Lock(self)
  /\ pc' = [pc EXCEPT ![self] = "inImagePNG"]
  /\ UNCHANGED << doc, aloneVars, mainVars, jobs, jobsClosed, wg, inSession,
                  pathsMutex, allPaths, local, histVars >>

\* What is left of indices after the detection the loop is at
Rest(self) == SkipFiltered(local[self].cands, Tail(local[self].indices))

\* What the library calls of the extraction the loop is at do
Outcome(self) ==
  IF local[self].tried < Len(Page(self).extract)
  THEN Page(self).extract[local[self].tried + 1] ELSE "ok"

\* doc.ImagePNG(pageNum, 300): return; on error the detection is skipped
\* and the loop goes on
ImagePNGReturn(self) ==
  /\ pc[self] = "inImagePNG"
  /\ Unlock(self)
  /\ IF Outcome(self) # "hiRes failed"
     THEN /\ pc' = [pc EXCEPT ![self] = "crop"]
          /\ log' = Note(self, << "hiRes" >>)
          /\ local' = local
     ELSE /\ pc' = [pc EXCEPT ![self] = LoopPc(Rest(self))]
          /\ log' = Note(self, << "hiRes failed" >>)
          /\ local' = [local EXCEPT ![self].indices = Rest(self),
                                    ![self].tried = @ + 1]
  /\ UNCHANGED << doc, aloneVars, mainVars, jobs, jobsClosed, wg, inSession,
                  pathsMutex, allPaths, taken, returned, files >>

\* The crop of the detection the loop is at: its box rescaled by the ratio
\* of the two renders' sizes, cut out of the high-resolution image
Crop(self) ==
  cropImage(Page(self).W1, Page(self).H1,
            cropRect(Current(self).box, local[self].originalW, local[self].originalH,
                     Page(self).W1, Page(self).H1))

Path(self) == fName(local[self].pageNum, Label(self), Current(self).box)

\* saveImage: os.Create fails and leaves the directory as it was, or it
\* creates the file (truncating a file of the same name) and png.Encode
\* either fails, leaving the file incomplete, or writes the image
saveImage(path, label, box, crop, r) ==
  IF r = "create failed" THEN files
  ELSE {f \in files : f.path # path} \cup
       {[path |-> path, label |-> label, box |-> box, crop |-> crop,
         complete |-> r = "ok"]}

\* The steps noted for png.Decode, the crop and saveImage
SaveSteps(r) ==
  CASE r = "ok" -> << "crop", "write" >>
    [] r = "png failed" -> << r >>
    [] r = "create failed" -> << "crop", r >>
    [] r = "encode failed" -> << "crop", r >>

\* CropAndSave as it would be if the path were appended whatever saveImage
\* returned
CropAndSaveKeepsPath(self) ==
  /\ pc[self] = "crop"
  /\ files' = IF Outcome(self) = "png failed" THEN files
              ELSE saveImage(Path(self), Label(self), Current(self).box,
                             Crop(self), Outcome(self))
  /\ local' = [local EXCEPT
                 ![self].paths = IF Outcome(self) = "png failed" THEN @
                                 ELSE Append(@, Path(self)),
                 ![self].indices = Rest(self),
                 ![self].tried = @ + 1]
  /\ log' = Note(self, SaveSteps(Outcome(self)))
  /\ pc' = [pc EXCEPT ![self] = LoopPc(Rest(self))]
  /\ UNCHANGED << doc, aloneVars, mainVars, jobs, jobsClosed, wg, docMu,
                  inHandle, inSession, pathsMutex, allPaths, taken, returned >>

\* png.Decode, the rescaled crop and saveImage; the path is appended only
\* when saveImage returns nil, and the loop goes on
CropAndSave(self) ==
  /\ pc[self] = "crop"
  /\ files' = IF Outcome(self) = "png failed" THEN files
              ELSE saveImage(Path(self), Label(self), Current(self).box,
                             Crop(self), Outcome(self))
  /\ local' = [local EXCEPT
                 ![self].paths = IF Outcome(self) = "ok" THEN Append(@, Path(self)) ELSE @,
                 ![self].indices = Rest(self),
                 ![self].tried = @ + 1]
  /\ log' = Note(self, SaveSteps(Outcome(self)))
  /\ pc' = [pc EXCEPT ![self] = LoopPc(Rest(self))]
  /\ UNCHANGED << doc, aloneVars, mainVars, jobs, jobsClosed, wg, docMu,
                  inHandle, inSession, pathsMutex, allPaths, taken, returned >>

\* -------------------------------------------------------------------- Next
Main == Open \/ NumPageEnter \/ NumPageReturn \/ Spawn \/ Dispatch \/ Close \/ Wait

Worker(self) ==
  \/ Recv(self) \/ ImageEnter(self) \/ ImageReturn(self)
  \/ RunEnter(self) \/ RunReturn(self)
  \/ ImagePNGEnter(self) \/ ImagePNGReturn(self) \/ CropAndSave(self)
  \/ Return(self) \/ PathsLock(self) \/ PathsAppend(self)

Next == Main \/ \E self \in Workers : Worker(self)

Spec == Init /\ [][Next]_vars

\* ------------------------------------------------- suppression on its own
\* The candidate lists: up to MaxCand boxes with a confidence above the
\* threshold each, as parseYOLOOutput hands them to NMSBoxes
CandBoxes ==
  { Rect(0, 0, 10, 10), Rect(3, 0, 13, 10), Rect(5, 0, 15, 10),
    Rect(20, 20, 20, 30), Rect(40, 40, 40, 40) }

CandConfs == {60, 90}

CandClasses == {6, 9}

Candidate == [box : CandBoxes, classId : CandClasses, conf : CandConfs]

CandLists == UNION { [1..n -> Candidate] : n \in 1..MaxCand }

InitNMS ==
  /\ doc = [p \in {} |-> 0]
  /\ PoolInit
  /\ candidates \in CandLists
  /\ survivors = << >>
  /\ nmsDone = FALSE
  /\ second = NoSecond
  /\ geo = NoGeo
  /\ req = NoReq
  /\ OthersIdle

\* indices = gocv.NMSBoxes(boxes, confidences, e.ConfThreshold, e.NMSThreshold)
ApplyNMS ==
  /\ ~nmsDone
  /\ candidates # << >>
  /\ survivors' = Suppress(candidates)
  /\ nmsDone' = TRUE
  /\ UNCHANGED << doc, mainVars, jobs, jobsClosed, wg, docMu, inHandle,
                  inSession, pathsMutex, allPaths, pc, local, histVars,
                  candidates, second, geo, req, otherVars >>

\* The boxes and confidences of the survivors, in the order NMSBoxes
\* returned them
SurvivorCands == [n \in 1..Len(survivors) |-> candidates[survivors[n]]]

\* NMSBoxes applied to the survivors of the first application
ApplyAgain ==
  /\ nmsDone
  /\ ~second.done
  /\ second' = [done |-> TRUE, survivors |-> Suppress(SurvivorCands)]
  /\ UNCHANGED << doc, mainVars, jobs, jobsClosed, wg, docMu, inHandle,
                  inSession, pathsMutex, allPaths, pc, local, histVars,
                  candidates, survivors, nmsDone, geo, req, otherVars >>

NextNMS == ApplyNMS \/ ApplyAgain

SpecNMS == InitNMS /\ [][NextNMS]_vars

\* ------------------------------------- decoding and cropping on their own
\* The renders: the size of the low-resolution one (long side a power of
\* two) and of the high-resolution one, the two ratios W1/W0 and H1/H0
\* being 1, 3/2, 2 or 3 and not always the same on both axes
GeoSizes ==
  { [W0 |-> 1024, H0 |-> 1024, W1 |-> 2048, H1 |-> 2048],
    [W0 |-> 1024, H0 |-> 1024, W1 |-> 1536, H1 |-> 1536],
    [W0 |-> 2048, H0 |-> 1024, W1 |-> 2048, H1 |-> 1024],
    [W0 |-> 2048, H0 |-> 1024, W1 |-> 3072, H1 |-> 1536],
    [W0 |-> 512, H0 |-> 1024, W1 |-> 768, H1 |-> 3072],
    [W0 |-> 1024, H0 |-> 768, W1 |-> 1536, H1 |-> 1152],
    [W0 |-> 4093, H0 |-> 4096, W1 |-> 8186, H1 |-> 8192] }

\* The anchors: at the centre of the canvas and off it, small, odd-sized
\* and nearly as large as the canvas
GeoAnchors ==
  { Anchor(cx, cy, w, h, 8, 90) :
      cx \in {100, 512, 900}, cy \in {300, 512},
      w \in {29, 100, 1004}, h \in {100, 601, 1004} }

InitGeom ==
  /\ doc = [p \in {} |-> 0]
  /\ PoolInit
  /\ candidates = << >>
  /\ survivors = << >>
  /\ nmsDone = FALSE
  /\ second = NoSecond
  /\ req = NoReq
  /\ OthersIdle
  /\ \E size \in GeoSizes, a \in GeoAnchors :
       geo = [stage |-> "raw", W0 |-> size.W0, H0 |-> size.H0,
              W1 |-> size.W1, H1 |-> size.H1, a |-> a]

\* parseYOLOOutput on the one anchor
DecodeOne ==
  /\ geo.stage = "raw"
  /\ geo' = [stage |-> "decoded", W0 |-> geo.W0, H0 |-> geo.H0,
             W1 |-> geo.W1, H1 |-> geo.H1, a |-> geo.a,
             box |-> parseYOLOOutput(<< geo.a >>, geo.W0, geo.H0)[1].box]
  /\ UNCHANGED << doc, mainVars, jobs, jobsClosed, wg, docMu, inHandle,
                  inSession, pathsMutex, allPaths, pc, local, histVars,
                  nmsVars, req, otherVars >>

\* the rescaling of the box and cropImage on the high-resolution render
CropOne ==
  /\ geo.stage = "decoded"
  /\ geo' = [stage |-> "cropped", W0 |-> geo.W0, H0 |-> geo.H0,
             W1 |-> geo.W1, H1 |-> geo.H1, a |-> geo.a, box |-> geo.box,
             rect |-> cropRect(geo.box, geo.W0, geo.H0, geo.W1, geo.H1),
             crop |-> cropImage(geo.W1, geo.H1,
                                cropRect(geo.box, geo.W0, geo.H0, geo.W1, geo.H1))]
  /\ UNCHANGED << doc, mainVars, jobs, jobsClosed, wg, docMu, inHandle,
                  inSession, pathsMutex, allPaths, pc, local, histVars,
                  nmsVars, req, otherVars >>

NextGeom == DecodeOne \/ CropOne

SpecGeom == InitGeom /\ [][NextGeom]_vars

\* ------------------------------------------------ SafeDocument on its own
\* The page indices a caller may ask for: those of the document, the one
\* below and the ones above
AskedPages == -1..MaxPages

\* One goroutine is about to call doc.Image(n) or doc.ImagePNG(n, 300) on
\* the SafeDocument of an opened document
InitRender ==
  /\ doc \in DocSamples
  /\ rawDoc = "open"
  /\ mpc = "spawn"
  /\ numPages = Cardinality(DOMAIN doc)
  /\ nextPage = 0
  /\ result = "none"
  /\ jobs = << >>
  /\ jobsClosed = FALSE
  /\ wg = 0
  /\ docMu = Free
  /\ inHandle = {}
  /\ inSession = {}
  /\ pathsMutex = Free
  /\ allPaths = << >>
  /\ pc = [w \in Workers |-> "unborn"]
  /\ local = [w \in Workers |-> NoLocal]
  /\ taken = [p \in Pages |-> 0]
  /\ returned = [p \in Pages |-> << >>]
  /\ log = [p \in Pages |-> << >>]
  /\ files = {}
  /\ candidates = << >>
  /\ survivors = << >>
  /\ nmsDone = FALSE
  /\ second = NoSecond
  /\ geo = NoGeo
  /\ OthersIdle
  /\ \E by \in Workers, method \in {"Image", "ImagePNG"}, n \in AskedPages :
       req = [stage |-> "call", by |-> by, method |-> method, n |-> n,
              touched |-> << >>, err |-> FALSE]

\* s.mu.Lock(); s.doc.Image(n) or s.doc.ImagePNG(n, dpi) is entered with
\* the index as it was given
RenderEnter ==
  /\ req.stage = "call"
  /\ Lock(req.by)
  /\ req' = [req EXCEPT !.stage = "inside", !.touched = Append(@, req.n)]
  /\ UNCHANGED << doc, mainVars, jobs, jobsClosed, wg, inSession, pathsMutex,
                  allPaths, pc, local, histVars, nmsVars, geo, otherVars >>

\* the wrapped call returns, with an error when go-fitz finds no such page
\* and with or without one otherwise; the deferred s.mu.Unlock()
RenderReturn ==
  /\ req.stage = "inside"
  /\ Unlock(req.by)
  /\ \E failed \in BOOLEAN :
       req' = [req EXCEPT !.stage = "returned",
                          !.err = IF req.n \in DOMAIN doc THEN failed ELSE TRUE]
  /\ UNCHANGED << doc, mainVars, jobs, jobsClosed, wg, inSession, pathsMutex,
                  allPaths, pc, local, histVars, nmsVars, geo, otherVars >>

NextRender == RenderEnter \/ RenderReturn

SpecRender == InitRender /\ [][NextRender]_vars

\* --------------------------------------------------- the decoder on its own
\* The class scores of an anchor: none above zero, none above the
\* threshold, one just above it, the first and the last class, two classes
\* tied for the maximum, and a maximum among negative scores
ScoreVectors ==
  << [k \in 0..(NumClasses - 1) |-> 0],
     [k \in 0..(NumClasses - 1) |-> -5],
     [k \in 0..(NumClasses - 1) |-> IF k = 8 THEN 30 ELSE 12],
     [k \in 0..(NumClasses - 1) |-> IF k = 8 THEN 31 ELSE 30],
     [k \in 0..(NumClasses - 1) |-> IF k = 0 THEN 90 ELSE 0],
     [k \in 0..(NumClasses - 1) |-> IF k = 10 THEN 90 ELSE 45],
     [k \in 0..(NumClasses - 1) |-> IF k \in {2, 7} THEN 60 ELSE 10],
     [k \in 0..(NumClasses - 1) |-> IF k = 4 THEN 50 ELSE -5],
     [k \in 0..(NumClasses - 1) |-> 70] >>

\* One anchor for each, told apart by its position
DecAnchors ==
  { [cx |-> 100 * n, cy |-> 512, w |-> 100, h |-> 60, score |-> ScoreVectors[n]] :
      n \in DOMAIN ScoreVectors }

\* The raw outputs: up to MaxAnchors anchors
DecOutputs == UNION { [1..n -> DecAnchors] : n \in 0..MaxAnchors }

\* The render the raw outputs belong to
DecPage == [W0 |-> 1024, H0 |-> 1024]

ExtractorIdle ==
  /\ doc = [p \in {} |-> 0]
  /\ PoolInit
  /\ candidates = << >>
  /\ survivors = << >>
  /\ nmsDone = FALSE
  /\ second = NoSecond
  /\ geo = NoGeo
  /\ req = NoReq

InitDecode ==
  /\ ExtractorIdle
  /\ lb = NoLb
  /\ tts = NoTts
  /\ pool = NoPool
  /\ sec = NoSec
  /\ \E out \in DecOutputs : dec = [stage |-> "raw", out |-> out]

\* boxes, classIds, confidences := e.parseYOLOOutput(...)
DecodeAll ==
  /\ dec.stage = "raw"
  /\ dec' = LET parsed == parseYOLOOutput(dec.out, DecPage.W0, DecPage.H0)
            IN  [stage |-> "decoded", out |-> dec.out,
                 boxes |-> [i \in 1..Len(parsed) |-> parsed[i].box],
                 classIds |-> [i \in 1..Len(parsed) |-> parsed[i].classId],
                 confidences |-> [i \in 1..Len(parsed) |-> parsed[i].conf]]
  /\ UNCHANGED << extractorVars, nmsVars, geo, req, lb, tts, pool, sec >>

NextDecode == DecodeAll

SpecDecode == InitDecode /\ [][NextDecode]_vars

\* ------------------------------------------------- the letterbox on its own
\* The sides of a render: the smallest, two that do not divide 1024, the
\* usual ones, and some that make the page far narrower than it is long
LbSides == {1, 2, 3, 49, 98, 100, 512, 768, 1000, 1024, 2048, 4096}

InitLetterbox ==
  /\ ExtractorIdle
  /\ dec = NoDec
  /\ tts = NoTts
  /\ pool = NoPool
  /\ sec = NoSec
  /\ \E W0 \in LbSides, H0 \in LbSides :
       lb = [stage |-> "rendered", originalW |-> W0, originalH |-> H0]

\* scale, newW, newH, dx, dy and canvas.Region(image.Rect(dx, dy, dx+newW,
\* dy+newH))
Letterbox ==
  /\ lb.stage = "rendered"
  /\ lb' = [stage |-> "pasted", originalW |-> lb.originalW, originalH |-> lb.originalH,
            newW |-> newW(lb.originalW, lb.originalH),
            newH |-> newH(lb.originalW, lb.originalH),
            dx |-> dx(lb.originalW, lb.originalH),
            dy |-> dy(lb.originalW, lb.originalH),
            roi |-> Rect(dx(lb.originalW, lb.originalH), dy(lb.originalW, lb.originalH),
                         dx(lb.originalW, lb.originalH) + newW(lb.originalW, lb.originalH),
                         dy(lb.originalW, lb.originalH) + newH(lb.originalW, lb.originalH))]
  /\ UNCHANGED << extractorVars, nmsVars, geo, req, dec, tts, pool, sec >>

NextLetterbox == Letterbox

SpecLetterbox == InitLetterbox /\ [][NextLetterbox]_vars

\* ------------------------------------------------- the reel TTS semaphore
\* The dialogue turns, each spoken by one goroutine of GenerateDialogueAudio
Turns == 1..MaxTurns

\* Two reels are made at the same time, each with its own ReelTTSClient;
\* the turns are theirs alternately
Clients == {1, 2}

ClientOf(g) == ((g - 1) % 2) + 1

\* cap(globalReelTTSSem)
SemCap == 2

\* The semaphore of a client as it would be if NewReelTTSClient made one
\* for each client
SemOfItsOwn(c) == c

\* NewReelTTSClient: sem is globalReelTTSSem, whichever the client
SemOf(c) == "globalReelTTSSem"

\* The returns of synthesizeText: the text is empty after cleaning; the
\* single chunk is synthesized, or not; no chunk of several is; the only
\* chunk file cannot be read, or is copied; the files are concatenated, or
\* the list file cannot be written
ReturnPaths ==
  {"empty text", "one chunk", "one chunk failed", "no audio chunks",
   "read failed", "one file", "concatenated", "list failed"}

\* The returns with a nil error
NilReturns == {"one chunk", "one file", "concatenated"}

InitTTS ==
  /\ ExtractorIdle
  /\ dec = NoDec
  /\ lb = NoLb
  /\ pool = NoPool
  /\ sec = NoSec
  /\ tts = [stage |-> "run",
            sem |-> [n \in {SemOf(c) : c \in Clients} |-> 0],
            at |-> [g \in Turns |-> "go"],
            err |-> [g \in Turns |-> "none"]]

\* err := c.synthesizeText(...): the call is made and stands at c.sem <-
CallSynthesize(g) ==
  /\ tts.stage = "run"
  /\ tts.at[g] = "go"
  /\ tts' = [tts EXCEPT !.at[g] = "send"]
  /\ UNCHANGED << extractorVars, nmsVars, geo, req, dec, lb, pool, sec >>

\* c.sem <- struct{}{}: blocks while the buffer is full
Acquire(g) ==
  /\ tts.stage = "run"
  /\ tts.at[g] = "send"
  /\ tts.sem[SemOf(ClientOf(g))] < SemCap
  /\ tts' = [tts EXCEPT !.at[g] = "body", !.sem[SemOf(ClientOf(g))] = @ + 1]
  /\ UNCHANGED << extractorVars, nmsVars, geo, req, dec, lb, pool, sec >>

\* A return of synthesizeText, and the deferred <-c.sem
ReturnBy(g, path) ==
  /\ tts.stage = "run"
  /\ tts.at[g] = "body"
  /\ tts' = [tts EXCEPT !.at[g] = "returned", !.err[g] = path,
                        !.sem[SemOf(ClientOf(g))] = @ - 1]
  /\ UNCHANGED << extractorVars, nmsVars, geo, req, dec, lb, pool, sec >>

ReturnSynthesize(g) == \E path \in ReturnPaths : ReturnBy(g, path)

NextTTS == \E g \in Turns : CallSynthesize(g) \/ Acquire(g) \/ ReturnSynthesize(g)

\* Every call that is made gets to the send, and every call past the
\* semaphore returns
FairTTS == \A g \in Turns : WF_vars(Acquire(g)) /\ WF_vars(ReturnSynthesize(g))

SpecTTS == InitTTS /\ [][NextTTS]_vars /\ FairTTS

\* ------------------------------------------------------ the HTTP job pool
\* The jobs that are uploaded; their ids are distinct (handlePDFUpload takes
\* them from the nanosecond clock)
JobIds == 1..MaxJobs

\* job.Mode: the three pipelines, and a mode that is none of them
Modes == << "video", "gif", "poster", "reel" >>

ModeOf(j) == Modes[((j - 1) % 4) + 1]

\* The goroutines of WorkerPool.Start
PoolWorkers == 1..NumWorkers

\* What a pipeline returns: nil or an error
PipelineReturns(mode) ==
  IF mode \in {"video", "poster", "reel"} THEN {"", "pipeline failed"}
  ELSE {"unknown mode"}

\* updateStatus as it would be if DoneAt were set on every update
updateStatusAlwaysDone(results, jobID, status, errMsg) ==
  IF jobID \in DOMAIN results
  THEN [results EXCEPT ![jobID] =
          [@ EXCEPT !.Status = status, !.Error = errMsg, !.DoneAt = "set"]]
  ELSE results

\* updateStatus, under p.mu
updateStatus(results, jobID, status, errMsg) ==
  IF jobID \in DOMAIN results
  THEN [results EXCEPT ![jobID] =
          [@ EXCEPT !.Status = status, !.Error = errMsg,
                    !.DoneAt = IF status = "completed" \/ status = "failed"
                               THEN "set" ELSE @]]
  ELSE results

\* NewWorkerPool: the channel, the empty map, and Start
InitPool ==
  /\ ExtractorIdle
  /\ dec = NoDec
  /\ lb = NoLb
  /\ tts = NoTts
  /\ sec = NoSec
  /\ pool = [stage |-> "run",
             jobs |-> << >>,
             closed |-> FALSE,
             results |-> [id \in {} |-> 0],
             wg |-> NumWorkers,
             at |-> [w \in PoolWorkers |-> "range"],
             job |-> [w \in PoolWorkers |-> 0],
             sub |-> [j \in JobIds |-> "upload"],
             runs |-> [j \in JobIds |-> 0],
             shut |-> "serving",
             query |-> [asked |-> FALSE]]

PoolStep == UNCHANGED << extractorVars, nmsVars, geo, req, dec, lb, tts, sec >>

\* Submit: the entry is written under p.mu
SubmitEntry(j) ==
  /\ pool.stage = "run"
  /\ pool.sub[j] = "upload"
  /\ pool' = [pool EXCEPT
                !.results = [id \in DOMAIN pool.results \cup {j} |->
                               IF id = j
                               THEN [ID |-> j, Status |-> "queued", Mode |-> ModeOf(j),
                                     Error |-> "", DoneAt |-> "nil"]
                               ELSE pool.results[id]],
                !.sub[j] = "entered"]
  /\ PoolStep

\* Submit: p.jobs <- job, which blocks while the buffer is full
SubmitSend(j) ==
  /\ pool.stage = "run"
  /\ pool.sub[j] = "entered"
  /\ ~pool.closed
  /\ Len(pool.jobs) < BufferSize
  /\ pool' = [pool EXCEPT !.jobs = Append(@, j), !.sub[j] = "accepted"]
  /\ PoolStep

\* Submit: a send on the closed channel panics
SubmitPanic(j) ==
  /\ pool.stage = "run"
  /\ pool.sub[j] = "entered"
  /\ pool.closed
  /\ pool' = [pool EXCEPT !.sub[j] = "panicked"]
  /\ PoolStep

\* for job := range p.jobs: a job is received; then processJob up to the
\* call of the pipeline: p.updateStatus(job.ID, "processing", "")
WorkerRecv(w) ==
  /\ pool.stage = "run"
  /\ pool.at[w] = "range"
  /\ pool.jobs # << >>
  /\ pool' = [pool EXCEPT
                !.jobs = Tail(@),
                !.job[w] = Head(pool.jobs),
                !.results = updateStatus(pool.results, Head(pool.jobs), "processing", ""),
                !.runs[Head(pool.jobs)] = @ + 1,
                !.at[w] = "pipeline"]
  /\ PoolStep

\* WorkerExit as it would be if the loop ended as soon as the channel was
\* closed
WorkerExitOnClose(w) ==
  /\ pool.stage = "run"
  /\ pool.at[w] = "range"
  /\ pool.closed
  /\ pool' = [pool EXCEPT !.at[w] = "done", !.wg = @ - 1]
  /\ PoolStep

\* for job := range p.jobs: the channel is closed and empty; wg.Done
WorkerExit(w) ==
  /\ pool.stage = "run"
  /\ pool.at[w] = "range"
  /\ pool.closed
  /\ pool.jobs = << >>
  /\ pool' = [pool EXCEPT !.at[w] = "done", !.wg = @ - 1]
  /\ PoolStep

\* processJob: the pipeline of the job's mode returns, and the status is
\* updated with what it returned
ProcessFinish(w) ==
  /\ pool.stage = "run"
  /\ pool.at[w] = "pipeline"
  /\ \E err \in PipelineReturns(pool.results[pool.job[w]].Mode) :
       pool' = [pool EXCEPT
                  !.results = IF err # ""
                              THEN updateStatus(pool.results, pool.job[w], "failed", err)
                              ELSE updateStatus(pool.results, pool.job[w], "completed", ""),
                  !.at[w] = "range"]
  /\ PoolStep

\* GetStatus, under p.mu.RLock
GetStatus(j) ==
  /\ pool.stage = "run"
  /\ pool' = [pool EXCEPT
                !.query = [asked |-> TRUE,
                           submitted |-> pool.sub[j] # "upload",
                           ok |-> j \in DOMAIN pool.results]]
  /\ pool'.query # pool.query
  /\ PoolStep

\* Shutdown: close(p.jobs)
ShutdownClose ==
  /\ pool.stage = "run"
  /\ pool.shut = "serving"
  /\ pool' = [pool EXCEPT !.closed = TRUE, !.shut = "wait"]
  /\ PoolStep

\* Shutdown: p.wg.Wait() returns
ShutdownReturn ==
  /\ pool.stage = "run"
  /\ pool.shut = "wait"
  /\ pool.wg = 0
  /\ pool' = [pool EXCEPT !.shut = "returned"]
  /\ PoolStep

PoolWorker(w) ==
  WorkerRecv(w) \/ WorkerExit(w) \/ ProcessFinish(w)

NextPool ==
  \/ \E j \in JobIds : SubmitEntry(j) \/ SubmitSend(j) \/ SubmitPanic(j) \/ GetStatus(j)
  \/ \E w \in PoolWorkers : PoolWorker(w)
  \/ ShutdownClose
  \/ ShutdownReturn

\* The worker goroutines are scheduled and every pipeline call returns:
\* while some worker can take a step, some worker does
FairPool == WF_vars(\E w \in PoolWorkers : PoolWorker(w))

SpecPool == InitPool /\ [][NextPool]_vars /\ FairPool

\* ------------------------------------- the video pipeline's bullet points
\* The keys of the sections map that ParseScriptToSections returned
SectionNames == 1..MaxSections

\* Some goroutine is inside sections[n] = ...
Writing == \E n \in SectionNames : sec.at[n] = "write"

\* What a step of the map iterator does: it goes on, or, made while the map
\* is being written, it may end the process (fatal error: concurrent map
\* iteration and map write)
IterOutcomes == IF Writing THEN {"next", "fatal"} ELSE {"next"}

InitSections ==
  /\ ExtractorIdle
  /\ dec = NoDec
  /\ lb = NoLb
  /\ tts = NoTts
  /\ pool = NoPool
  /\ sec = [stage |-> "run",
            main |-> "range",
            visited |-> {},
            sectionMutex |-> 0,
            bulletWg |-> 0,
            at |-> [n \in SectionNames |-> "none"],
            Bullets |-> [n \in SectionNames |-> "none"]]

SectionsStep == UNCHANGED << extractorVars, nmsVars, geo, req, dec, lb, tts, pool >>

\* for name, data := range sections: the iterator gives the next key, in
\* any order, with no lock held; bulletWg.Add(1); go func(name, data)
RangeNext(n) ==
  /\ sec.stage = "run"
  /\ sec.main = "range"
  /\ n \notin sec.visited
  /\ \E o \in IterOutcomes :
       sec' = IF o = "fatal" THEN [sec EXCEPT !.main = "fatal"]
              ELSE [sec EXCEPT !.visited = @ \cup {n}, !.bulletWg = @ + 1,
                               !.at[n] = "generate"]
  /\ SectionsStep

\* the iterator finds no further key and the loop ends
RangeEnd ==
  /\ sec.stage = "run"
  /\ sec.main = "range"
  /\ sec.visited = SectionNames
  /\ \E o \in IterOutcomes :
       sec' = [sec EXCEPT !.main = IF o = "fatal" THEN "fatal" ELSE "wait"]
  /\ SectionsStep

\* gemini.GenerateBulletPoints(d.Script); on error the stand-in bullets
GenerateBullets(n) ==
  /\ sec.stage = "run"
  /\ sec.main # "fatal"
  /\ sec.at[n] = "generate"
  /\ \E b \in {"generated", "Key points unavailable"} :
       sec' = [sec EXCEPT !.at[n] = "lock", !.Bullets[n] = b]
  /\ SectionsStep

\* sectionMutex.Lock(), and the write of sections[n] begins
WriteLock(n) ==
  /\ sec.stage = "run"
  /\ sec.main # "fatal"
  /\ sec.at[n] = "lock"
  /\ sec.sectionMutex = 0
  /\ sec' = [sec EXCEPT !.at[n] = "write", !.sectionMutex = n]
  /\ SectionsStep

\* the write of sections[n] ends; sectionMutex.Unlock(); bulletWg.Done()
WriteUnlock(n) ==
  /\ sec.stage = "run"
  /\ sec.main # "fatal"
  /\ sec.at[n] = "write"
  /\ sec' = [sec EXCEPT !.at[n] = "done", !.sectionMutex = 0, !.bulletWg = @ - 1]
  /\ SectionsStep

\* bulletWg.Wait() returns, and step 4 begins
BulletWait ==
  /\ sec.stage = "run"
  /\ sec.main = "wait"
  /\ sec.bulletWg = 0
  /\ sec' = [sec EXCEPT !.main = "assets"]
  /\ SectionsStep

NextSections ==
  \/ \E n \in SectionNames :
       RangeNext(n) \/ GenerateBullets(n) \/ WriteLock(n) \/ WriteUnlock(n)
  \/ RangeEnd
  \/ BulletWait

SpecSections == InitSections /\ [][NextSections]_vars

\* ================================================================ claims
Goroutines == Workers \cup {MainId}

\* The goroutine is between the entry and the return of a SafeDocument call
InCall(g) ==
  IF g = MainId THEN mpc = "inNumPage" ELSE pc[g] \in {"inImage", "inImagePNG"}

Opened == rawDoc # "nil"

Done == mpc = "done"

\* C1: at most one goroutine is inside the document handle; a goroutine is
\* inside a SafeDocument call exactly while it holds the mutex (so the
\* mutex is released on every return, failed renders included), and a
\* goroutine enters the handle only from a state in which the mutex is free.
C1_OneInsideHandle ==
  /\ [](/\ Cardinality(inHandle) <= 1
        /\ \A g \in Goroutines : (g \in inHandle <=> docMu = g)
        /\ \A g \in Goroutines : (InCall(g) <=> g \in inHandle))
  /\ [][\A g \in Goroutines :
          (g \in inHandle' /\ g \notin inHandle) => (docMu = Free /\ inHandle = {})]_vars

\* C1 witness: one worker is inside the handle while another stands at a
\* render call, waiting for the mutex
C1_Witness ==
  \E v, w \in Workers :
    /\ v \in inHandle
    /\ pc[w] \in {"render", "hiRes"}

Count(seq, x) == Cardinality({i \in 1..Len(seq) : seq[i] = x})

Elems(seq) == {seq[i] : i \in 1..Len(seq)}

\* What processPage returned for page p, all its returns taken together
RECURSIVE Flatten(_)
Flatten(lists) == IF lists = << >> THEN << >> ELSE Head(lists) \o Flatten(Tail(lists))

RECURSIVE ProducedCount(_, _)
ProducedCount(p, x) ==
  IF p < 0 THEN 0
  ELSE Count(Flatten(returned[p]), x) + ProducedCount(p - 1, x)

KnownPaths == Elems(allPaths) \cup UNION {Elems(Flatten(returned[p])) : p \in Pages}

\* C2: when the call returns, every path occurs in the result list exactly
\* as often as in the lists processPage returned for the pages, and the
\* shared list changes only in a step of the worker that holds pathsMutex.
C2_ResultIsUnion ==
  /\ []((Done /\ Opened) =>
          \A x \in KnownPaths : Count(allPaths, x) = ProducedCount(MaxPages - 1, x))
  /\ [][allPaths' # allPaths =>
          (pathsMutex \in Workers /\ pc[pathsMutex] = "append")]_vars

\* C2 witness: the call has returned paths of two pages, a path of the
\* later page standing before a path of the earlier one
C2_Witness ==
  /\ Done
  /\ Len(allPaths) >= 2
  /\ allPaths[1][2] > allPaths[Len(allPaths)][2]

\* An upper bound on the steps a worker still takes for the page it holds
WorkerRank(w) ==
  LET k == Len(local[w].indices)
      n == IF local[w].pageNum \in DOMAIN doc THEN Len(doc[local[w].pageNum].out) ELSE 0
  IN  CASE pc[w] = "unborn"     -> 1
        [] pc[w] = "recv"       -> 1
        [] pc[w] = "exit"       -> 0
        [] pc[w] = "render"     -> 3 * n + 8
        [] pc[w] = "inImage"    -> 3 * n + 7
        [] pc[w] = "run"        -> 3 * n + 6
        [] pc[w] = "inRun"      -> 3 * n + 5
        [] pc[w] = "hiRes"      -> 3 * k + 4
        [] pc[w] = "inImagePNG" -> 3 * k + 3
        [] pc[w] = "crop"       -> 3 * k + 2
        [] pc[w] = "return"     -> 4
        [] pc[w] = "lockPaths"  -> 3
        [] pc[w] = "append"     -> 2

MainRank ==
  CASE mpc = "open"      -> 6 + NumWorkers
    [] mpc = "numPage"   -> 5 + NumWorkers
    [] mpc = "inNumPage" -> 4 + NumWorkers
    [] mpc = "spawn"     -> 3 + Cardinality({w \in Workers : pc[w] = "unborn"})
    [] mpc = "dispatch"  -> 2
    [] mpc = "wait"      -> 1
    [] mpc = "done"      -> 0

RECURSIVE SumOver(_, _)
SumOver(S, f) ==
  IF S = {} THEN 0
  ELSE LET x == CHOOSE y \in S : TRUE IN f[x] + SumOver(S \ {x}, f)

\* The steps still to come: those of the caller, those of the workers, and
\* for each page not yet received its send, its receive and its processing
Measure ==
  MainRank
  + SumOver(Workers, [w \in Workers |-> WorkerRank(w)])
  + SumOver({p \in DOMAIN doc : taken[p] = 0},
            [p \in DOMAIN doc |-> 3 * Len(doc[p].out) + 9
                                   + (IF p >= nextPage THEN 1 ELSE 0)])

\* Some goroutine can take a step (the return from session.Run has no
\* condition but the worker's position)
CanStep ==
  \/ ENABLED Main
  \/ \E w \in Workers :
       \/ ENABLED Recv(w) \/ ENABLED ImageEnter(w) \/ ENABLED ImageReturn(w)
       \/ ENABLED RunEnter(w) \/ pc[w] = "inRun" \/ ENABLED ImagePNGEnter(w)
       \/ ENABLED ImagePNGReturn(w) \/ ENABLED CropAndSave(w)
       \/ ENABLED Return(w) \/ ENABLED PathsLock(w) \/ ENABLED PathsAppend(w)

\* C3: a send never finds the buffer full, every state before the return
\* has a step that can be taken, and every step lowers a natural-number
\* bound on the steps to come: no run blocks and every run of goroutines
\* that keep being scheduled reaches the return.
C3_Terminates ==
  /\ []((mpc = "dispatch" /\ nextPage < numPages) => Len(jobs) < numPages)
  /\ [](~Done => CanStep)
  /\ [](Measure >= 0)
  /\ [][Measure' < Measure]_vars

\* C3 witness: the call has returned after all pages of a full document
\* were dispatched and all workers have left their loops
C3_Witness ==
  /\ Done
  /\ Opened
  /\ nextPage = MaxPages
  /\ \A w \in Workers : pc[w] = "exit"

\* The worker holds a page: it has received an index and not yet come back
\* for the next one
Busy(w) == pc[w] \notin {"unborn", "recv", "exit"}

\* C4: no page index is received twice, two workers never hold the same
\* page, and when the call returns every page of the document has been
\* received once and processed once, and no other index has been.
C4_EachPageOnce ==
  /\ \A p \in Pages : taken[p] <= 1 /\ Len(returned[p]) <= taken[p]
  /\ \A v, w \in Workers :
       (v # w /\ Busy(v) /\ Busy(w)) => local[v].pageNum # local[w].pageNum
  /\ (Done /\ Opened) =>
       \A p \in Pages :
         IF p \in DOMAIN doc THEN taken[p] = 1 /\ Len(returned[p]) = 1
                             ELSE taken[p] = 0 /\ Len(returned[p]) = 0

\* C4 witness: two workers hold the two pages of a document at once
C4_Witness ==
  \E v, w \in Workers :
    /\ v # w
    /\ Busy(v)
    /\ Busy(w)
    /\ taken[0] = 1
    /\ taken[1] = 1

\* What processPage noted for page p
Noted(p) == Elems(log[p])

\* Page p has produced nothing: no artifact file, no path in any list
Empty_(p) ==
  /\ returned[p] \in {<< >>, << << >> >>}
  /\ \A f \in files : f.path[2] # p
  /\ \A x \in Elems(allPaths) : x[2] # p
  /\ \A w \in Workers : local[w].pageNum = p => local[w].paths = << >>

\* The call has returned nil after every page was processed, and the
\* result list holds every path that processPage returned
AllPagesReturned ==
  /\ result = "nil"
  /\ \A q \in DOMAIN doc :
       /\ Len(returned[q]) = 1
       /\ \A x \in Elems(returned[q][1]) : x \in Elems(allPaths)

\* C5: a page whose low-resolution render fails has nothing done for it
\* after the render and contributes an empty list, and the call still
\* processes every other page, returns their artifacts and returns nil.
C5_RenderFailureSkipsPage ==
  /\ \A p \in DOMAIN doc :
       "render failed" \in Noted(p) => (log[p] = << "render failed" >> /\ Empty_(p))
  /\ (Done /\ Opened /\ \E p \in DOMAIN doc : "render failed" \in Noted(p))
       => AllPagesReturned

\* C5 witness: the call has returned, one page's render failed and the
\* result holds an artifact of another page
C5_Witness ==
  /\ Done
  /\ \E p, q \in DOMAIN doc :
       /\ log[p] = << "render failed" >>
       /\ "write" \in Noted(q)
       /\ \E x \in Elems(allPaths) : x[2] = q

AfterInference ==
  {"decode", "suppress", "hiRes", "hiRes failed", "png failed", "crop",
   "write", "create failed", "encode failed"}

\* C6: a page whose detector run fails, or for which a tensor cannot be
\* created, has no decoding, no high-resolution render and no write done
\* for it and contributes an empty list; the call goes on and returns nil.
C6_InferenceFailureSkipsPage ==
  /\ \A p \in DOMAIN doc :
       (Noted(p) \cap {"infer failed", "tensor failed"} # {})
         => (Noted(p) \cap AfterInference = {} /\ Empty_(p))
  /\ (Done /\ Opened /\ \E p \in DOMAIN doc :
                          Noted(p) \cap {"infer failed", "tensor failed"} # {})
       => AllPagesReturned

\* C6 witness: the detector run of one page has failed and the worker has
\* returned from processPage for it, while another page got its artifact
C6_Witness ==
  \E p, q \in DOMAIN doc :
    /\ "infer failed" \in Noted(p)
    /\ returned[p] = << << >> >>
    /\ "write" \in Noted(q)

Failures ==
  {"render failed", "mat failed", "tensor failed", "infer failed",
   "hiRes failed", "png failed", "create failed", "encode failed"}

\* C7: the call returns an error exactly when the document could not be
\* opened; whatever failed for a page or a detection, it returns nil after
\* processing every page.
C7_ErrorOnlyFromOpen ==
  /\ ~Done => result = "none"
  /\ Done => /\ result \in {"nil", "error opening PDF"}
             /\ result # "nil" <=> ~Opened
             /\ result = "nil" => \A p \in DOMAIN doc : Len(returned[p]) = 1

\* C7 witness: the call has returned nil for a document of two pages on
\* each of which something failed
C7_Witness ==
  /\ Done
  /\ result = "nil"
  /\ numPages = 2
  /\ \A p \in DOMAIN doc : Noted(p) \cap Failures # {}

Retained == {"Picture", "Table"}

\* The workers that are in the region extractor, between the filters and
\* the write
Extracting == {w \in Workers : pc[w] \in {"hiRes", "inImagePNG", "crop"}}

\* C8: every detection in the region extractor, every file written and
\* every path in a worker's list, in a returned list or in the result is
\* labelled Picture or Table.
C8_OnlyPicturesAndTables ==
  /\ \A w \in Extracting : Label(w) \in Retained
  /\ \A f \in files : f.label \in Retained /\ f.path[4] \in Retained
  /\ \A x \in KnownPaths : x[4] \in Retained
  /\ \A w \in Workers : \A x \in Elems(local[w].paths) : x[4] \in Retained

\* The labels of the detections of page p that survive suppression
SurvivorLabels(p) ==
  LET cands == parseYOLOOutput(doc[p].out, doc[p].W0, doc[p].H0)
  IN  {ClassNames[cands[i].classId + 1] : i \in Elems(Suppress(cands))}

\* C8 witness: a page on which a Text detection survived suppression has
\* been processed and has given an artifact
C8_Witness ==
  \E p \in DOMAIN doc :
    /\ "Text" \in SurvivorLabels(p)
    /\ Len(returned[p]) = 1
    /\ returned[p][1] # << >>

\* C9: every detection in the region extractor and every file written
\* belongs to a box at least MinBoxSize wide and high in the coordinates of
\* the low-resolution render.
C9_MinimumBoxSize ==
  /\ \A w \in Extracting :
       Dx(Current(w).box) >= 30 /\ Dy(Current(w).box) >= 30
  /\ \A f \in files : Dx(f.box) >= 30 /\ Dy(f.box) >= 30

\* C9 witness: a box of exactly 30 x 30 has been written, the crop being
\* larger than the box, on a page where a narrower box survived suppression
C9_Witness ==
  \E f \in files :
    /\ Dx(f.box) = 30
    /\ Dy(f.box) = 30
    /\ Dx(f.crop) > 30
    /\ LET cands == parseYOLOOutput(doc[f.path[2]].out, doc[f.path[2]].W0, doc[f.path[2]].H0)
       IN  \E i \in Elems(Suppress(cands)) : Dx(cands[i].box) < 30

\* Intersection over union of two boxes exceeds t hundredths
IoUExceeds(a, b, t) ==
  LET inter == Area(Intersect(a, b))
      union == Area(a) + Area(b) - inter
  IN  union > 0 /\ 100 * inter > t * union

Kept == Elems(survivors)

Cands == 1..Len(candidates)

Box(i) == candidates[i].box

Conf(i) == candidates[i].conf

\* The concrete case: two boxes, IoU above 0.45, confidences 0.9 and 0.6
NinetySixty ==
  (/\ Len(candidates) = 2
   /\ IoUExceeds(Box(1), Box(2), 45)
   /\ {Conf(1), Conf(2)} = {60, 90})
    => survivors = << CHOOSE i \in Cands : Conf(i) = 90 >>

\* C10 as stated: the candidate of highest confidence survives, no two
\* survivors have IoU above 0.45, and every suppressed candidate has IoU
\* above 0.45 with a survivor of strictly higher confidence.
C10_AsStated ==
  nmsDone =>
    /\ \A i \in Cands : (\A j \in Cands \ {i} : Conf(i) > Conf(j)) => i \in Kept
    /\ \A i, j \in Kept : i # j => ~IoUExceeds(Box(i), Box(j), 45)
    /\ \A s \in Cands \ Kept :
         \E k \in Kept : IoUExceeds(Box(s), Box(k), 45) /\ Conf(k) > Conf(s)
    /\ NinetySixty

\* Two boxes count as overlapping for the suppression: IoU above 0.45, or
\* both of area zero
Overlapping(a, b) ==
  IoUExceeds(a, b, 45) \/ (Area(a) = 0 /\ Area(b) = 0)

\* Candidate k comes before candidate s in the order of suppression: higher
\* confidence, or the same confidence and earlier in anchor order
Before(k, s) == Conf(k) > Conf(s) \/ (Conf(k) = Conf(s) /\ k < s)

\* C10 (amended): the first candidate in the order of suppression survives,
\* no two survivors overlap, and every suppressed candidate overlaps a
\* survivor that comes before it, whatever the classes of the two; of two
\* boxes with IoU above 0.45 and confidences 0.9 and 0.6 only the 0.9 one
\* survives.
C10_Suppression ==
  nmsDone =>
    /\ \A i \in Cands : (\A j \in Cands \ {i} : Before(i, j)) => i \in Kept
    /\ \A i, j \in Kept : i # j => ~Overlapping(Box(i), Box(j))
    /\ \A s \in Cands \ Kept :
         \E k \in Kept : Overlapping(Box(s), Box(k)) /\ Before(k, s)
    /\ Kept \subseteq Cands
    /\ Len(survivors) = Cardinality(Kept)
    /\ NinetySixty

\* C10 witness: a candidate has been suppressed by a box of another class,
\* and another by a box of its own confidence
C10_Witness ==
  /\ nmsDone
  /\ \E s \in Cands \ Kept : \E k \in Kept :
       /\ IoUExceeds(Box(s), Box(k), 45)
       /\ candidates[s].classId # candidates[k].classId
       /\ Conf(k) > Conf(s)
  /\ \E s \in Cands \ Kept : \E k \in Kept :
       /\ Overlapping(Box(s), Box(k))
       /\ Conf(k) = Conf(s)

\* The candidates that survive the second application, as indices of the
\* candidate list given to the first
KeptAgain == {survivors[n] : n \in Elems(second.survivors)}

\* C11: suppression applied to the survivors of a first suppression
\* returns all of them, in the order it was given them: the surviving set
\* is the same after the second application as after the first.
C11_Idempotent ==
  second.done =>
    /\ KeptAgain = Kept
    /\ second.survivors = [n \in 1..Len(survivors) |-> n]

\* C11 witness: the first application has suppressed a candidate and kept
\* two, and the second has been applied to those two
C11_Witness ==
  /\ second.done
  /\ Cardinality(Kept) = 2
  /\ Len(candidates) > 2

\* c is the exact product x * num / den
ExactProduct(c, x, num, den) == c * den = x * num

\* c is the product x * num / den cut down to a whole pixel
WholePixel(c, x, num, den) == c * den <= x * num /\ x * num < (c + 1) * den

\* C12 as stated: the box is cropped at exactly x0*W1/W0, y0*H1/H0,
\* x1*W1/W0, y1*H1/H0.
C12_AsStated ==
  geo.stage = "cropped" =>
    /\ ExactProduct(geo.rect.minX, geo.box.minX, geo.W1, geo.W0)
    /\ ExactProduct(geo.rect.minY, geo.box.minY, geo.H1, geo.H0)
    /\ ExactProduct(geo.rect.maxX, geo.box.maxX, geo.W1, geo.W0)
    /\ ExactProduct(geo.rect.maxY, geo.box.maxY, geo.H1, geo.H0)

\* C12 (amended): each corner of the crop rectangle is the corner of the
\* box times the ratio of the two renders' sizes along its axis, cut down
\* to a whole pixel, and the crop is that rectangle cut to the bounds of
\* the high-resolution render.
C12_Remap ==
  geo.stage = "cropped" =>
    /\ WholePixel(geo.rect.minX, geo.box.minX, geo.W1, geo.W0)
    /\ WholePixel(geo.rect.minY, geo.box.minY, geo.H1, geo.H0)
    /\ WholePixel(geo.rect.maxX, geo.box.maxX, geo.W1, geo.W0)
    /\ WholePixel(geo.rect.maxY, geo.box.maxY, geo.H1, geo.H0)
    /\ ~Empty(Intersect(geo.rect, Rect(0, 0, geo.W1, geo.H1)))
         => geo.crop = Intersect(geo.rect, Rect(0, 0, geo.W1, geo.H1))

\* C12 witness: a box has been rescaled by 3/2 along x, to a left edge
\* that is not a whole number of pixels, and by 3 along y, and the crop
\* lies inside the render
C12_Witness ==
  /\ geo.stage = "cropped"
  /\ 2 * geo.W1 = 3 * geo.W0
  /\ geo.H1 = 3 * geo.H0
  /\ ~ExactProduct(geo.rect.minX, geo.box.minX, geo.W1, geo.W0)
  /\ geo.rect.maxY = 3 * geo.box.maxY
  /\ geo.crop = geo.rect

\* The anchor lies at the exact centre of the padded canvas
Centred == geo.a.cx * 2 = inputSize /\ geo.a.cy * 2 = inputSize

\* 2 * |centre of [lo, hi] - size / 2|
OffCentre2(lo, hi, size) ==
  IF lo + hi >= size THEN lo + hi - size ELSE size - (lo + hi)

\* 1024 * |d - s / scale|, the scale being 1024 / M
OffSize(d, s, M) ==
  IF d * inputSize >= s * M THEN d * inputSize - s * M ELSE s * M - d * inputSize

\* C13 as stated: a detection at the centre of the canvas decodes to the
\* box centred on the page centre with size (w/scale, h/scale), each
\* within one pixel.
C13_AsStated ==
  (geo.stage = "decoded" /\ Centred) =>
    /\ OffCentre2(geo.box.minX, geo.box.maxX, geo.W0) <= 2
    /\ OffCentre2(geo.box.minY, geo.box.maxY, geo.H0) <= 2
    /\ OffSize(Dx(geo.box), geo.a.w, LongSide(geo.W0, geo.H0)) <= inputSize
    /\ OffSize(Dy(geo.box), geo.a.h, LongSide(geo.W0, geo.H0)) <= inputSize

\* The detection is no larger than the page: w/scale <= W0, h/scale <= H0
FitsPage ==
  /\ geo.a.w * LongSide(geo.W0, geo.H0) <= geo.W0 * inputSize
  /\ geo.a.h * LongSide(geo.W0, geo.H0) <= geo.H0 * inputSize

\* C13 (amended): a detection at the centre of the canvas that is no
\* larger than the page decodes to a box of size (w/scale, h/scale) within
\* one pixel, whose centre is within one canvas pixel (1/scale page
\* pixels) plus one pixel of the page centre.
C13_RoundTrip ==
  (geo.stage = "decoded" /\ Centred /\ FitsPage) =>
    /\ OffCentre2(geo.box.minX, geo.box.maxX, geo.W0) * inputSize
         <= 2 * LongSide(geo.W0, geo.H0) + 2 * inputSize
    /\ OffCentre2(geo.box.minY, geo.box.maxY, geo.H0) * inputSize
         <= 2 * LongSide(geo.W0, geo.H0) + 2 * inputSize
    /\ OffSize(Dx(geo.box), geo.a.w, LongSide(geo.W0, geo.H0)) <= inputSize
    /\ OffSize(Dy(geo.box), geo.a.h, LongSide(geo.W0, geo.H0)) <= inputSize

\* C13 witness: a centred detection of odd height that fits a padded page
\* has been decoded to a box around the page centre
C13_Witness ==
  /\ geo.stage = "decoded"
  /\ Centred
  /\ FitsPage
  /\ dy(geo.W0, geo.H0) > 0
  /\ geo.a.h = 601
  /\ geo.box.minY > 0

\* The document is one page with the full-canvas Table, and the call has
\* returned
FullCanvasDone ==
  /\ Done
  /\ Opened
  /\ DOMAIN doc = {0}
  /\ doc[0].out = FullCanvasOut

\* The margin of 10 canvas pixels on both sides, in pixels of the
\* high-resolution render of size size1 for a page side size0:
\* 2 * (10 / scale) * (size1 / size0), times size0 * 1024
Margins(size0, size1) ==
  2 * FullCanvasMargin * LongSide(doc[0].W0, doc[0].H0) * size1

\* The crop side d is the render's side size1 less the rescaled margins,
\* which are a whole number of pixels
LessMargins(d, size0, size1) ==
  /\ Margins(size0, size1) % (size0 * inputSize) = 0
  /\ d = size1 - Margins(size0, size1) \div (size0 * inputSize)

\* C14 as stated: one artifact file is produced and both its crop
\* dimensions are those of the high-resolution render less the rescaled
\* margins.
C14_AsStated ==
  FullCanvasDone =>
    /\ Cardinality(files) = 1
    /\ Len(allPaths) = 1
    /\ \A f \in files :
         /\ LessMargins(Dx(f.crop), doc[0].W0, doc[0].W1)
         /\ LessMargins(Dy(f.crop), doc[0].H0, doc[0].H1)

\* C14 (amended): one artifact file is produced, labelled Table; along an
\* axis on which the page fills the canvas (both, on a square page) its
\* crop dimension is that of the high-resolution render less the rescaled
\* margins, and along an axis on which the canvas is padded by more than
\* the margin the crop spans the whole render.
C14_FullCanvasTable ==
  FullCanvasDone =>
    /\ Cardinality(files) = 1
    /\ Len(allPaths) = 1
    /\ \A f \in files :
         /\ f.path = allPaths[1]
         /\ f.label = "Table"
         /\ f.complete
         /\ IF dx(doc[0].W0, doc[0].H0) = 0
            THEN LessMargins(Dx(f.crop), doc[0].W0, doc[0].W1)
            ELSE dx(doc[0].W0, doc[0].H0) > FullCanvasMargin /\ Dx(f.crop) = doc[0].W1
         /\ IF dy(doc[0].W0, doc[0].H0) = 0
            THEN LessMargins(Dy(f.crop), doc[0].H0, doc[0].H1)
            ELSE dy(doc[0].W0, doc[0].H0) > FullCanvasMargin /\ Dy(f.crop) = doc[0].H1

\* C14 witness: the call has returned the one artifact of the square page,
\* 1506 x 1506 out of a render of 1536 x 1536
C14_Witness ==
  /\ FullCanvasDone
  /\ doc[0].W0 = doc[0].H0
  /\ \E f \in files : Dx(f.crop) = 1506 /\ Dy(f.crop) = 1506

\* How many of the steps noted for page p are of the given kinds
Steps(p, kinds) == Cardinality({i \in 1..Len(log[p]) : log[p][i] \in kinds})

\* C15: doc.Image and doc.ImagePNG are each called at most once for a page
\* in one run of ExtractImagesFromPDF.
C15_RenderedOncePerResolution ==
  \A p \in DOMAIN doc :
    /\ Steps(p, {"render", "render failed"}) <= 1
    /\ Steps(p, {"hiRes", "hiRes failed"}) <= 1

\* The box lies within the low-resolution render of page p
WithinPage(box, p) ==
  /\ 0 <= box.minX
  /\ box.minX <= box.maxX
  /\ box.maxX <= doc[p].W0
  /\ 0 <= box.minY
  /\ box.minY <= box.maxY
  /\ box.maxY <= doc[p].H0

\* C16: every box the decoder has returned to a worker, and so every box
\* the worker has in the region extractor, lies within the low-resolution
\* render of the worker's page.
C16_BoxesWithinPage ==
  \A w \in Workers :
    /\ \A i \in 1..Len(local[w].cands) :
         WithinPage(local[w].cands[i].box, local[w].pageNum)
    /\ w \in Extracting => WithinPage(Current(w).box, local[w].pageNum)

NoRepeat(seq) == \A i, j \in 1..Len(seq) : i # j => seq[i] # seq[j]

\* C17: no file is written twice, so that no artifact overwrites another,
\* and no path stands twice in a worker's list or in the result.
C17_NoCollision ==
  /\ \A w \in Workers : NoRepeat(local[w].paths)
  /\ NoRepeat(allPaths)
  /\ Cardinality(files) = SumOver(DOMAIN doc,
                                  [p \in DOMAIN doc |->
                                     Steps(p, {"write", "encode failed"})])

\* The crop that belongs to a box of page p
CropOf(box, p) ==
  LET bounds == Rect(0, 0, doc[p].W1, doc[p].H1)
      rect   == cropRect(box, doc[p].W0, doc[p].H0, doc[p].W1, doc[p].H1)
  IN  IF Empty(Intersect(rect, bounds)) THEN Rect(0, 0, 1, 1)
      ELSE Intersect(rect, bounds)

\* The detections of a page that survive suppression and both filters, in
\* the order of the loop
ExtractedOf(page) ==
  LET cands == parseYOLOOutput(page.out, page.W0, page.H0)
      passes(idx) == Passes(cands, idx)
  IN  [n \in 1..Len(SelectSeq(Suppress(cands), passes)) |->
         cands[SelectSeq(Suppress(cands), passes)[n]]]

\* The same for every page a document can hold
ExtractedBySample == [i \in DOMAIN SamplePages |-> ExtractedOf(SamplePages[i])]

Extracted(p) ==
  ExtractedBySample[CHOOSE i \in DOMAIN SamplePages : SamplePages[i] = doc[p]]

\* Page p has been processed to the end without a failure of a library call
Processed(p) ==
  /\ Len(returned[p]) = 1
  /\ Noted(p) \cap Failures = {}

\* C18: every file holds the rescaled box cut to the bounds of the
\* high-resolution render, or a 1 x 1 image when nothing of the box is
\* inside them, never an empty image; and a page processed without a
\* failure of a library call has returned a path for every detection that
\* survived suppression and the filters, empty crops included.
C18_CropNeverFails ==
  /\ \A f \in files :
       /\ f.crop = CropOf(f.box, f.path[2])
       /\ ~Empty(f.crop)
       /\ f.crop.minX >= 0 /\ f.crop.maxX <= doc[f.path[2]].W1
       /\ f.crop.minY >= 0 /\ f.crop.maxY <= doc[f.path[2]].H1
  /\ \A p \in DOMAIN doc :
       Processed(p) =>
         /\ Len(returned[p][1]) = Len(Extracted(p))
         /\ Steps(p, {"write"}) = Len(Extracted(p))

\* C18 witness: a page has returned two paths, one of a detection outside
\* the page, saved as a 1 x 1 image, and one of a detection inside it
C18_Witness ==
  \E p \in DOMAIN doc :
    /\ Processed(p)
    /\ Len(returned[p][1]) = 2
    /\ \E f, g \in files :
         /\ f.path = returned[p][1][1]
         /\ g.path = returned[p][1][2]
         /\ f.crop = Rect(0, 0, 1, 1)
         /\ Empty(Intersect(cropRect(f.box, doc[p].W0, doc[p].H0, doc[p].W1, doc[p].H1),
                            Rect(0, 0, doc[p].W1, doc[p].H1)))
         /\ Dx(g.crop) > 1

\* What the library calls do for the n-th extraction of page p
OutcomeAt(p, n) == IF n <= Len(doc[p].extract) THEN doc[p].extract[n] ELSE "ok"

\* The paths of the extractions of page p, from the n-th on, whose file
\* write succeeds
RECURSIVE WrittenFrom(_, _)
WrittenFrom(p, n) ==
  IF n > Len(Extracted(p)) THEN << >>
  ELSE (IF OutcomeAt(p, n) = "ok"
        THEN << fName(p, ClassNames[Extracted(p)[n].classId + 1], Extracted(p)[n].box) >>
        ELSE << >>) \o WrittenFrom(p, n + 1)

C20_RangeChecked ==
  /\ req.stage \in {"inside", "returned"} =>
       \A i \in 1..Len(req.touched) : req.touched[i] \in DOMAIN doc
  /\ (req.stage = "returned" /\ req.n \notin DOMAIN doc) => req.err
  /\ req.stage = "inside" => docMu = req.by
  /\ req.stage = "returned" => docMu = Free

\* The greatest of an anchor's class scores
TopScore(a) ==
  CHOOSE m \in {a.score[k] : k \in DOMAIN a.score} :
    \A k \in DOMAIN a.score : a.score[k] <= m

\* The lowest class that has the greatest score
TopClass(a) ==
  CHOOSE k \in DOMAIN a.score :
    /\ a.score[k] = TopScore(a)
    /\ \A l \in DOMAIN a.score : a.score[l] = TopScore(a) => k <= l

\* The anchors of the raw output whose greatest score exceeds 0.30
Emitted == {j \in 1..Len(dec.out) : TopScore(dec.out[j]) > 30}

\* The i-th of them in anchor order
EmittedAt(i) ==
  CHOOSE j \in Emitted : Cardinality({l \in Emitted : l < j}) = i - 1

\* C21: the three lists have one entry for each anchor whose greatest
\* class score exceeds 0.30 and for no other, in anchor order; entry i
\* holds the box of its anchor, the lowest class with the greatest score
\* and that score.
C21_DecoderEmits ==
  dec.stage = "decoded" =>
    /\ Len(dec.boxes) = Cardinality(Emitted)
    /\ Len(dec.classIds) = Cardinality(Emitted)
    /\ Len(dec.confidences) = Cardinality(Emitted)
    /\ \A i \in 1..Cardinality(Emitted) :
         /\ dec.confidences[i] = TopScore(dec.out[EmittedAt(i)])
         /\ dec.classIds[i] = TopClass(dec.out[EmittedAt(i)])
         /\ dec.boxes[i] = DecodeBox(dec.out[EmittedAt(i)], DecPage.W0, DecPage.H0)

\* C21 witness: of two anchors the first, whose greatest score is exactly
\* 0.30, was dropped and the second, with two classes tied, was emitted
C21_Witness ==
  /\ dec.stage = "decoded"
  /\ Len(dec.out) = 2
  /\ TopScore(dec.out[1]) = 30
  /\ dec.classIds = << 2 >>
  /\ dec.out[2].score[7] = dec.out[2].score[2]
  /\ dec.confidences = << 60 >>

\* C27: every class id the decoder returns is an index of the label
\* table, 0 to 10, never the initial -1.
C27_ClassIdInRange ==
  dec.stage = "decoded" =>
    \A i \in 1..Len(dec.classIds) :
      /\ dec.classIds[i] \in 0..10
      /\ dec.classIds[i] + 1 \in DOMAIN ClassNames

\* C27 witness: an anchor whose scores are all zero and one whose greatest
\* score is that of the last class were decoded: nothing was emitted for
\* the first, and the second has class id 10
C27_Witness ==
  /\ dec.stage = "decoded"
  /\ Len(dec.out) = 2
  /\ TopScore(dec.out[1]) = 0
  /\ TopClass(dec.out[2]) = 10
  /\ dec.classIds = << 10 >>

\* The rectangle of the un-letterboxed box of an anchor: the min corner
\* clamped at zero, the max corner X + W/2, Y + H/2 as it is
UnletterboxedBox(a, W0, H0) ==
  LET M  == LongSide(W0, H0)
      D  == 2 * inputSize
      x0 == (2 * (a.cx - dx(W0, H0)) - a.w) * M
      y0 == (2 * (a.cy - dy(W0, H0)) - a.h) * M
      x1 == (2 * (a.cx - dx(W0, H0)) + a.w) * M
      y1 == (2 * (a.cy - dy(W0, H0)) + a.h) * M
  IN  Rect(Trunc(max(0, x0), D), Trunc(max(0, y0), D), Trunc(x1, D), Trunc(y1, D))

\* C22: the decoded rectangle has min = (max(0, X - W/2), max(0, Y - H/2))
\* and max = (X + W/2, Y + H/2): clamping the min corner does not move
\* the max corner, and nothing is clamped on the high side.
C22_MaxCornerUnmoved ==
  geo.stage # "raw" => geo.box = UnletterboxedBox(geo.a, geo.W0, geo.H0)

\* Where a noted step stands in processPage: the render, the
\* preprocessing, the tensors, the inference, the decoding, the suppression,
\* and the loop over the survivors
StepRank(step) ==
  CASE step \in {"render", "render failed"} -> 1
    [] step \in {"preprocess", "mat failed"} -> 2
    [] step = "tensor failed" -> 3
    [] step \in {"infer", "infer failed"} -> 4
    [] step = "decode" -> 5
    [] step = "suppress" -> 6
    [] OTHER -> 7

\* The steps that end one round of the loop over the survivors
RoundEnds == {"write", "hiRes failed", "png failed", "create failed", "encode failed"}

\* How many detections of a page survive gocv.NMSBoxes with a label of
\* Picture or Table and both sides of at least 30 pixels
WantedOf(page) ==
  LET cands == parseYOLOOutput(page.out, page.W0, page.H0)
      kept  == IF Len(cands) > 0 THEN NMSBoxes(cands, ConfThreshold, NMSThreshold)
               ELSE << >>
  IN  Cardinality({n \in 1..Len(kept) :
        /\ ClassNames[cands[kept[n]].classId + 1] \in {"Picture", "Table"}
        /\ cands[kept[n]].box.maxX - cands[kept[n]].box.minX >= 30
        /\ cands[kept[n]].box.maxY - cands[kept[n]].box.minY >= 30})

WantedBySample == [i \in DOMAIN SamplePages |-> WantedOf(SamplePages[i])]

Wanted(p) ==
  WantedBySample[CHOOSE i \in DOMAIN SamplePages : SamplePages[i] = doc[p]]

\* C23: the steps of one page are noted in the order render, preprocessing,
\* inference, decoding, suppression, and only then, once for each survivor
\* that passed the class and the size filter, high-resolution render, crop
\* and write in this order; a page none of whose survivors passed is never
\* rendered at high resolution.
C23_StepOrder ==
  \A p \in DOMAIN doc :
    /\ \A i, j \in 1..Len(log[p]) :
         i < j => /\ StepRank(log[p][i]) <= StepRank(log[p][j])
                  /\ StepRank(log[p][i]) < 7 => StepRank(log[p][i]) < StepRank(log[p][j])
    /\ \A i \in 1..Len(log[p]) :
         /\ StepRank(log[p][i]) = 7 => i > 1
         /\ log[p][i] \in {"hiRes", "hiRes failed"} =>
              log[p][i - 1] \in RoundEnds \cup {"suppress"}
         /\ log[p][i] \in {"crop", "png failed"} => log[p][i - 1] = "hiRes"
         /\ log[p][i] \in {"write", "create failed", "encode failed"} =>
              log[p][i - 1] = "crop"
    /\ Steps(p, {"hiRes", "hiRes failed"}) <= Wanted(p)
    /\ Len(returned[p]) = 1 /\ Steps(p, {"suppress"}) = 1 =>
         Steps(p, {"hiRes", "hiRes failed"}) = Wanted(p)

\* C23 witness: a page with a Table and a Text detection both surviving
\* suppression has been processed to the end: one high-resolution render
\* followed the suppression, for the Table, and one file was written
C23_Witness ==
  \E p \in DOMAIN doc :
    /\ Len(returned[p]) = 1
    /\ Len(Suppress(parseYOLOOutput(doc[p].out, doc[p].W0, doc[p].H0))) = 2
    /\ Wanted(p) = 1
    /\ log[p] = << "render", "preprocess", "infer", "decode", "suppress",
                   "hiRes", "crop", "write" >>

\* C24: for every render of W0 x H0 pixels, W0, H0 >= 1, the resized
\* size has 1 <= newW <= 1024 and 1 <= newH <= 1024 with the longer side
\* equal to 1024, dx = (1024 - newW) div 2 >= 0, dy = (1024 - newH) div 2
\* >= 0, and the pasted region lies inside the 1024 x 1024 canvas.
C24_LetterboxWellFormed ==
  lb.stage = "pasted" =>
    /\ 1 <= lb.newW /\ lb.newW <= 1024
    /\ 1 <= lb.newH /\ lb.newH <= 1024
    /\ max(lb.newW, lb.newH) = 1024
    /\ lb.originalW >= lb.originalH => lb.newW = 1024
    /\ lb.originalH >= lb.originalW => lb.newH = 1024
    /\ lb.dx = (1024 - lb.newW) \div 2 /\ lb.dx >= 0
    /\ lb.dy = (1024 - lb.newH) \div 2 /\ lb.dy >= 0
    /\ 0 <= lb.roi.minX /\ lb.roi.maxX <= 1024
    /\ 0 <= lb.roi.minY /\ lb.roi.maxY <= 1024

\* C25: nothing keeps a worker out of the inference call: a worker that
\* has prepared its tensors can enter it whoever else is inside, and a
\* worker inside it holds neither the document mutex nor the results
\* mutex; so two workers can be inside at the same time.
C25_SessionUnguarded ==
  \A w \in Workers :
    /\ pc[w] = "run" => ENABLED RunEnter(w)
    /\ pc[w] \in {"run", "inRun"} => docMu # w /\ pathsMutex # w
    /\ w \in inSession <=> pc[w] = "inRun"

\* C25 witness: two workers are inside session.Run at the same time
C25_Witness ==
  /\ NumWorkers >= 2
  /\ Cardinality(DOMAIN doc) >= 2
  /\ \E v, w \in Workers : v # w /\ {v, w} \subseteq inSession

\* The calls that are past the semaphore and have not returned
PastSem == {g \in Turns : tts.at[g] = "body"}

RECURSIVE Permits(_, _)
\* The permits taken out of the semaphores in S
Permits(sem, S) ==
  IF S = {} THEN 0
  ELSE LET n == CHOOSE n \in S : TRUE IN sem[n] + Permits(sem, S \ {n})

\* C26: at most 2 calls of synthesizeText, over all clients, are past the
\* semaphore at any time; a call that has returned, with an error or
\* without, has given its permit back; and a call waiting at the semaphore
\* is eventually admitted.
C26_AtMostTwoAdmitted ==
  /\ [](tts.stage = "run" =>
          /\ Cardinality(PastSem) <= 2
          /\ Permits(tts.sem, DOMAIN tts.sem) = Cardinality(PastSem))
  /\ \A g \in Turns : (tts.stage = "run" /\ tts.at[g] = "send") ~> (tts.at[g] = "body")

\* C26 witness: two calls, of different clients, are past the semaphore, a
\* third waits, and no permit is left
C26_Witness ==
  /\ tts.stage = "run"
  /\ \E f, g, h \in Turns :
       /\ ClientOf(f) # ClientOf(g)
       /\ tts.at[f] = "body" /\ tts.at[g] = "body"
       /\ tts.at[h] = "send"
       /\ ~ENABLED Acquire(h)

\* The moves of a status
StatusMoves ==
  { << "queued", "processing" >>, << "processing", "completed" >>,
    << "processing", "failed" >> }

Terminal == {"completed", "failed"}

\* The jobs that are in the queue or with a worker
Dequeuable ==
  {pool.jobs[i] : i \in 1..Len(pool.jobs)} \cup
  {pool.job[w] : w \in {v \in PoolWorkers : pool.at[v] = "pipeline"}}

Accepted(j) == pool.sub[j] = "accepted"

Finished(j) == j \in DOMAIN pool.results /\ pool.results[j].Status \in Terminal

\* C29: a job accepted by Submit is processed once, by one worker, and
\* eventually has the status completed or failed (a job once accepted stays
\* so, and a status once terminal stays so: from some point on every
\* accepted job is finished); when Shutdown returns the queue is empty and
\* every accepted job is finished.
C29_EveryJobFinishes ==
  /\ [](pool.stage = "run" =>
          /\ \A j \in JobIds :
               /\ pool.runs[j] <= 1
               /\ Cardinality({w \in PoolWorkers :
                      pool.at[w] = "pipeline" /\ pool.job[w] = j}) <= 1
               /\ pool.runs[j] = 1 => Accepted(j)
               /\ Finished(j) => pool.runs[j] = 1
          /\ pool.shut = "returned" =>
               /\ pool.jobs = << >>
               /\ \A j \in JobIds : Accepted(j) => Finished(j))
  /\ <>[](pool.stage = "run" => \A j \in JobIds : Accepted(j) => Finished(j))

\* C29 witness: Shutdown closed the queue while an accepted job was still
\* in it and another was with a worker, and it has returned with both
\* finished
C29_Witness ==
  /\ pool.stage = "run"
  /\ pool.shut = "returned"
  /\ Cardinality({j \in JobIds : Accepted(j) /\ Finished(j)}) >= 2
  /\ \E j \in JobIds : pool.sub[j] = "panicked"

\* C30: no bullet-point goroutine writes the sections map while the main
\* goroutine is still iterating over it, and so the iteration never meets
\* a write.
C30_NoWriteWhileIterating ==
  sec.stage = "run" =>
    /\ ~(sec.main = "range" /\ \E n \in SectionNames : sec.at[n] = "write")
    /\ sec.main # "fatal"

====
